---- MODULE Spec2Model ----
(***************************************************************************)
(* Model of the gasless redemption CLI: the command line entry point       *)
(* main() of redeem.ts / redeem.js, the counting Semaphore it uses to      *)
(* bound concurrent redemptions, the per-position redemption task, the     *)
(* position fetcher and the key manager that main() unlocks first (Spec);   *)
(* the KeyManager (VaultSpec) and the RateLimiter (RlSpec) on their own;   *)
(* one call of getRedeemablePositions() with its retries and its rate      *)
(* limiter (FetcherSpec); the grouping of positions, the transaction       *)
(* builders, the environment override and the settlement results as        *)
(* functions of their arguments (FunSpec); the redemption loop from its    *)
(* first iteration, under fair scheduling (GateSpec).                      *)
(* main() counts time in ticks, the rate limiter and the fetcher in        *)
(* milliseconds.  Numbers of tokens are counted in units of 1e-7 token, so *)
(* that "size * 1e6" of the code is "size \div 10" here.                   *)
(***************************************************************************)
EXTENDS Integers, Sequences, FiniteSets, TLC

\* ------------------------------------------------------------------ bounds
\* Longest raw array the Data API answers with.
MaxRaw == 3
\* CONFIG.app.redeemTimeout and CONFIG.app.redemptionDelay, in ticks.
TimeoutTicks == 2
DelayTicks == 1
\* Bytes of the ciphertext of a bundle.
CipherLen == 2
\* Callers of the rate limiter, calls each of them makes, and the last tick
\* of the clock.
RlCallers == 2
RlMaxCalls == 2
MaxNow == 6
\* The largest maxRetries retryWithBackoff() is called with.
MaxRetries == 5
\* Amounts a negative-risk builder is applied to.
MaxAmounts == 3

\* ------------------------------------------------------- program constants
AddressHexLen == 40
Bytes32HexLen == 64
ApiRetries == 3
DefaultMaxConcurrent == 3
MinPasswordLength == 8
UsdcScaleDiv == 10
AuthTagLen == 16
\* The per-minute window of the rate limiter, and the step of its clock.
MinuteMs == 60000
TickMs == MinuteMs \div 4
\* CONFIG.api: timeout, backoffMultiplier, maxBackoffTime.
ApiTimeout == 30000
BackoffMultiplier == 2
MaxBackoffTime == 30000
\* baseDelay of retryWithBackoff(): its default, and what the fetcher passes.
DefaultBaseDelay == 1000
FetchBaseDelay == 2000

\* IEEE-754 +Infinity, as Number() yields it for an over-large literal.
Infinity == 2 ^ 20

\* ----------------------------------------------------------- hex strings
\* A string as the validators' regular expressions see it: whether it
\* starts with 0x, how many characters follow, and whether all of these
\* are hex digits.  id tells apart strings of the same shape.
HexStr(id, n) == [id |-> id, x |-> TRUE, n |-> n, hex |-> TRUE]
NoHexStr(id, n) == [id |-> id, x |-> TRUE, n |-> n, hex |-> FALSE]

\* Faulty variant: only the 0x prefix is looked at.
isValidAddressLax(s) == s.x
isValidAddress(s) == s.x /\ s.hex /\ s.n = AddressHexLen
isValidPrivateKey(s) == s.x /\ s.hex /\ s.n = Bytes32HexLen
\* Faulty variant: the length is not looked at.
isValidBytes32AnyLength(s) == s.x /\ s.hex
isValidBytes32(s) == s.x /\ s.hex /\ s.n = Bytes32HexLen

\* ------------------------------------------------------------- utilities
Max(a, b) == IF a >= b THEN a ELSE b
Min(a, b) == IF a <= b THEN a ELSE b

RECURSIVE SelectIdx(_, _, _)
\* The indices i of 1..n, ascending from k, for which keep[i] holds.
SelectIdx(keep, k, n) ==
    IF k > n THEN <<>>
    ELSE IF keep[k] THEN <<k>> \o SelectIdx(keep, k + 1, n)
    ELSE SelectIdx(keep, k + 1, n)

\* Sequences over S of length at most n.
SeqUpTo(S, n) == UNION {[1..k -> S] : k \in 0..n}

\* -------------------------------------------------- environment overrides
\* The values of MAX_CONCURRENT_REDEMPTIONS, "" for an unset variable.
EnvMaxValues == {"", "1", "2"}

\* A string of more decimal digits than a double can hold (over 309).
ManyDigits == "999...9 (400 digits)"

\* parseInt(value, 10), nan telling that the result is NaN: the integer the
\* longest prefix of sign and digits denotes, as a Number.
parseInt(s) ==
    CASE s = "0" -> [nan |-> FALSE, v |-> 0]
      [] s = "1" -> [nan |-> FALSE, v |-> 1]
      [] s = "2" -> [nan |-> FALSE, v |-> 2]
      [] s = "-1" -> [nan |-> FALSE, v |-> -1]
      [] s = "2abc" -> [nan |-> FALSE, v |-> 2]
      [] s = "1.5" -> [nan |-> FALSE, v |-> 1]
      [] s = ManyDigits -> [nan |-> FALSE, v |-> Infinity]
      [] OTHER -> [nan |-> TRUE, v |-> 0]

\* The value of CONFIG.app.maxConcurrentRedemptions after the overrides.
loadEnvironmentOverrides(envMax) ==
    IF envMax # ""
    THEN LET parsed == parseInt(envMax)
         IN  IF ~parsed.nan /\ parsed.v > 0 THEN parsed.v ELSE DefaultMaxConcurrent
    ELSE DefaultMaxConcurrent

\* ------------------------------------------------------ position fetcher
\* Faulty variant: the number is taken as it comes.
ClampNone(x) == x

\* Math.max(0, Number(x) || 0) on a number of the raw record.
ClampNonNeg(x) == Max(0, x)

Plus(a, b) == IF a = Infinity \/ b = Infinity THEN Infinity ELSE a + b

NewGroup(pos) ==
    [conditionId |-> pos.conditionId, negativeRisk |-> pos.negativeRisk,
     outcomes |-> <<>>, totalValue |-> 0, totalSize |-> 0]

AddOutcome(group, pos) ==
    LET outcome == [size |-> ClampNonNeg(pos.size),
                    value |-> ClampNonNeg(pos.currentValue)]
    IN  [group EXCEPT !.outcomes = Append(@, outcome),
                      !.totalValue = Plus(@, outcome.value),
                      !.totalSize = Plus(@, outcome.size)]

\* Index in the list of groups of the group of condition cid, 0 when none.
GroupIndex(groups, cid) ==
    IF \E k \in 1..Len(groups) : groups[k].conditionId = cid
    THEN CHOOSE k \in 1..Len(groups) : groups[k].conditionId = cid
    ELSE 0

RECURSIVE GroupFrom(_, _)
\* The loop over the raw records, byCondition being the groups in the
\* insertion order of the Map.
GroupFrom(raw, byCondition) ==
    IF raw = <<>> THEN byCondition
    ELSE LET pos == Head(raw)
             k == GroupIndex(byCondition, pos.conditionId)
         IN  IF ~isValidBytes32(pos.conditionId)
             THEN GroupFrom(Tail(raw), byCondition)
             ELSE IF k = 0
             THEN GroupFrom(Tail(raw),
                            Append(byCondition, AddOutcome(NewGroup(pos), pos)))
             ELSE GroupFrom(Tail(raw),
                            [byCondition EXCEPT ![k] = AddOutcome(@, pos)])

GroupPositions(raw) == GroupFrom(raw, <<>>)

\* --------------------------------------------------- transaction builders
NoTx == [to |-> "", conditionId |-> HexStr("", 0), args |-> <<>>, value |-> ""]
Built(tx) == [ok |-> TRUE, tx |-> tx, error |-> ""]
Thrown(msg) == [ok |-> FALSE, tx |-> NoTx, error |-> msg]

createCtfRedeemTx(conditionId) ==
    IF ~isValidBytes32(conditionId) THEN Thrown("Invalid condition ID")
    ELSE Built([to |-> "ctf", conditionId |-> conditionId,
                args |-> <<1, 2>>, value |-> "0"])

\* Math.floor(size * 1e6)
ScaleSize(size) == IF size = Infinity THEN Infinity ELSE size \div UsdcScaleDiv

\* Faulty variant: BigInt() takes any number.
CanBigIntAlways(sizes) == TRUE

\* calculateRedeemAmounts of transactions.ts: BigInt() throws a RangeError
\* on a number that is no integer.
CanBigInt(sizes) == \A k \in 1..Len(sizes) : Max(0, ScaleSize(sizes[k])) # Infinity
calculateRedeemAmounts(sizes) == [k \in 1..Len(sizes) |-> Max(0, ScaleSize(sizes[k]))]

\* createNegRiskRedeemTx of transactions.ts
createNegRiskRedeemTxTs(conditionId, amounts) ==
    IF ~isValidBytes32(conditionId) THEN Thrown("Invalid condition ID")
    ELSE IF Len(amounts) = 0 THEN Thrown("Amounts must be a non-empty array")
    ELSE IF \E k \in 1..Len(amounts) : amounts[k] < 0 THEN Thrown("Invalid amount")
    ELSE Built([to |-> "negRiskAdapter", conditionId |-> conditionId,
                args |-> amounts, value |-> "0"])

\* createNegRiskRedeemTx of redeem.js
createNegRiskRedeemTxJs(conditionId, amounts) ==
    IF ~isValidBytes32(conditionId) THEN Thrown("Invalid condition ID")
    ELSE IF Len(amounts) = 0 THEN Thrown("Amounts must be a non-empty array")
    ELSE IF \E k \in 1..Len(amounts) : amounts[k] = Infinity \/ amounts[k] <= 0
    THEN Thrown("Invalid amount")
    ELSE Built([to |-> "negRiskAdapter", conditionId |-> conditionId,
                args |-> amounts, value |-> "0"])

\* The build step of the redemption task, by the variant of the program.
BuildTx(variant, pos) ==
    LET sizes == [k \in 1..Len(pos.outcomes) |-> pos.outcomes[k].size]
    IN  IF ~pos.negativeRisk THEN createCtfRedeemTx(pos.conditionId)
        ELSE IF variant = "ts"
        THEN IF CanBigInt(sizes)
             THEN createNegRiskRedeemTxTs(pos.conditionId, calculateRedeemAmounts(sizes))
             ELSE Thrown("RangeError")
        ELSE createNegRiskRedeemTxJs(pos.conditionId,
                                     [k \in 1..Len(sizes) |-> ScaleSize(sizes[k])])

\* --------------------------------------------------------------- semaphore
\* Faulty variant: the limit test is off by one.
SemAcquireOffByOne(maxConcurrent, cur, queue, who) ==
    IF cur <= maxConcurrent
    THEN [current |-> cur + 1, waitQueue |-> queue, granted |-> TRUE]
    ELSE [current |-> cur, waitQueue |-> Append(queue, who), granted |-> FALSE]

\* acquire(): the new counter and wait queue, and whether the caller goes on
\* at once.
SemAcquire(maxConcurrent, cur, queue, who) ==
    IF cur < maxConcurrent
    THEN [current |-> cur + 1, waitQueue |-> queue, granted |-> TRUE]
    ELSE [current |-> cur, waitQueue |-> Append(queue, who), granted |-> FALSE]

\* Faulty variant: release() leaves the waiter in the queue.
SemReleaseNoWake(cur, queue) ==
    [current |-> cur - 1, waitQueue |-> queue, woken |-> <<>>]

\* release(): the new counter and wait queue, and the waiters resumed.
SemRelease(cur, queue) ==
    IF Len(queue) > 0
    THEN [current |-> (cur - 1) + 1, waitQueue |-> Tail(queue), woken |-> <<Head(queue)>>]
    ELSE [current |-> cur - 1, waitQueue |-> queue, woken |-> <<>>]

\* -------------------------------------------------------------- key manager
PasswordA == "correct-horse"
PasswordB == "battery-staple"
ShortPassword == "short"

GoodPrivateKey == HexStr("pk", Bytes32HexLen)
GoodFunder == HexStr("fa", AddressHexLen)
Bundles ==
    [privateKey : {GoodPrivateKey, HexStr("pk", Bytes32HexLen - 1)},
     funderAddress : {GoodFunder, NoHexStr("fa", AddressHexLen)}]
NoBundle == [privateKey |-> HexStr("", 0), funderAddress |-> HexStr("", 0)]

\* What crypto.randomBytes(32) and crypto.randomBytes(ivLength) return for
\* the salt and the iv of one encrypt() call.
RandomBytes == {[salt |-> "salt1", iv |-> "iv1"], [salt |-> "salt2", iv |-> "iv2"]}
Salts == {r.salt : r \in RandomBytes}
Ivs == {r.iv : r \in RandomBytes}

\* Cryptography is symbolic: a derived key names the password and the salt it
\* was derived from, a ciphertext names the key, the iv and the plaintext, a
\* tag names everything GCM authenticates. Two such values are equal only if
\* they were made from the same parts.
deriveKeyIgnoringPassword(password, salt) == [password |-> "", salt |-> salt]
deriveKey(password, salt) == [password |-> password, salt |-> salt]

\* JSON.stringify(data) and JSON.parse(text) on the bundle.
NoText == <<>>
JSONstringify(data) == <<"{", data.privateKey, data.funderAddress, "}">>
JSONparseSwapped(text) == [privateKey |-> text[3], funderAddress |-> text[2]]
JSONparse(text) == [privateKey |-> text[2], funderAddress |-> text[3]]

\* A hex string of the record: the bytes it was written from (val), how many
\* leading bytes of it are still written in hex digits (len), and the byte
\* whose hex digits were replaced by other hex digits (flip, 0 for none).
\* A field the record lacks has present = FALSE.
NoCipher == [key |-> deriveKey("", ""), iv |-> "", pt |-> NoText]
NoMac == [key |-> deriveKey("", ""), iv |-> "", aad |-> "",
          ct |-> [val |-> NoCipher, len |-> 0, flip |-> 0]]
HexField(val, len) == [present |-> TRUE, val |-> val, len |-> len, flip |-> 0]
StrField(val) == [present |-> TRUE, val |-> val]

\* Buffer.from(s, 'hex'): decoding stops at the first pair that is not hex.
BufferFromHex(field) == [val |-> field.val, len |-> field.len, flip |-> field.flip]

\* The tag GCM computes over the ciphertext bytes and the additional data.
GcmTag(key, iv, aad, ctBytes) == [key |-> key, iv |-> iv, aad |-> aad, ct |-> ctBytes]

\* The tag lengths decipher.setAuthTag() accepts for GCM when the decipher
\* was created without authTagLength.
ValidTagLengths == {4, 8, 12, 13, 14, 15, 16}

\* decipher.final(): the tag handed to setAuthTag is compared, over its own
\* length, with the tag computed from what was decrypted.
TagVerifies(tagBuf, computed) ==
    /\ tagBuf.val = computed
    /\ tagBuf.flip = 0 \/ tagBuf.flip > tagBuf.len

\* The key file: absent, or text that is JSON or not, holding the four fields.
NoVault ==
    [exists |-> FALSE, json |-> TRUE,
     salt |-> [present |-> FALSE, val |-> ""],
     iv |-> [present |-> FALSE, val |-> ""],
     encrypted |-> [present |-> FALSE, val |-> NoCipher, len |-> 0, flip |-> 0],
     tag |-> [present |-> FALSE, val |-> NoMac, len |-> 0, flip |-> 0]]

\* encrypt(data, password) with the salt and iv that randomBytes returned.
encrypt(data, password, salt, iv) ==
    LET key == deriveKey(password, salt)
        encrypted == HexField([key |-> key, iv |-> iv, pt |-> JSONstringify(data)],
                              CipherLen)
    IN  [salt |-> StrField(salt),
         iv |-> StrField(iv),
         encrypted |-> encrypted,
         tag |-> HexField(GcmTag(key, iv, salt, BufferFromHex(encrypted)), AuthTagLen)]

\* storeKeys(keys, password): the file written.
storeKeys(bundle, password, salt, iv) ==
    LET e == encrypt(bundle, password, salt, iv)
    IN  [exists |-> TRUE, json |-> TRUE, salt |-> e.salt, iv |-> e.iv,
         encrypted |-> e.encrypted, tag |-> e.tag]

KeyFileNotFound == "Key file not found. Run setup first."
DecryptionError == "Invalid password or corrupted key file"
Loaded(bundle) == [ok |-> TRUE, keys |-> bundle, error |-> ""]
LoadFails(msg) == [ok |-> FALSE, keys |-> NoBundle, error |-> msg]

\* decrypt(encryptedData, password): the bundle, or the error thrown.
decrypt(encryptedData, password) ==
    IF ~encryptedData.salt.present \/ ~encryptedData.iv.present
       \/ ~encryptedData.tag.present
    THEN LoadFails("TypeError: The first argument must be of type string")
    ELSE LET saltBuffer == encryptedData.salt.val
             ivBuffer == encryptedData.iv.val
             tagBuffer == BufferFromHex(encryptedData.tag)
             key == deriveKey(password, saltBuffer)
         IN  IF tagBuffer.len \notin ValidTagLengths
             THEN LoadFails("Invalid authentication tag length")
             ELSE IF ~encryptedData.encrypted.present
             THEN LoadFails(DecryptionError)
             ELSE LET ctBytes == BufferFromHex(encryptedData.encrypted)
                  IN  IF TagVerifies(tagBuffer, GcmTag(key, ivBuffer, saltBuffer, ctBytes))
                      THEN Loaded(JSONparse(ctBytes.val.pt))
                      ELSE LoadFails(DecryptionError)

\* loadKeys(password): the bundle, or the error thrown.
loadKeys(file, password) ==
    IF ~file.exists THEN LoadFails(KeyFileNotFound)
    ELSE IF ~file.json THEN LoadFails("SyntaxError: Unexpected token in JSON")
    ELSE decrypt(file, password)

\* isSetup() and reset() on the key file: the file left and the value returned.
isSetupNever(file) == FALSE
isSetup(file) == file.exists
\* Faulty variant: the key file is left in place.
resetKeepsFile(file) == [file |-> file, returned |-> file.exists]
resetAlwaysTrue(file) == [file |-> NoVault, returned |-> TRUE]
reset(file) == [file |-> NoVault, returned |-> file.exists]

\* The checks of setupWizard() on the password typed twice: the error thrown,
\* "" when there is none.
WizardErrorLengthOnly(password, confirmPassword) ==
    IF Len(password) < MinPasswordLength
    THEN "Password must be at least 8 characters long" ELSE ""
WizardError(password, confirmPassword) ==
    IF password # confirmPassword THEN "Passwords do not match"
    ELSE IF Len(password) < MinPasswordLength
    THEN "Password must be at least 8 characters long"
    ELSE ""

\* ------------------------------------------------------------------- state
VARIABLES
    argv,           \* the flags --check, --setup, --reset of the invocation
    variant,        \* "ts" (src/redeem.ts) or "js" (redeem.js)
    envPassword,    \* REDEEM_PASSWORD, "" when unset
    envMax,         \* MAX_CONCURRENT_REDEMPTIONS, "" when unset
    maxConcurrent,  \* CONFIG.app.maxConcurrentRedemptions
    vault,          \* the key file
    keys,           \* the bundle main() holds after unlock
    unlocked,       \* whether getKeys() returned
    pc,             \* where main() stands
    fatal,          \* the process.exit(1) site taken, "" when none
    exitCode,       \* -1 while the process runs
    mainResult,     \* what main() returned
    httpCalls,      \* requests sent to the Data API
    fetchAttempt,   \* attempt of retryWithBackoff
    fetched,        \* whether getRedeemablePositions() returned
    positions,      \* the grouped positions
    displayed,      \* whether the positions were listed on the console
    clientCreated,  \* whether the RelayClient was constructed
    current,        \* Semaphore.current
    waitQueue,      \* Semaphore.waitQueue
    loopI,          \* the iteration of the loop of main(), from 1
    sleepLeft,      \* ticks left of sleep(redemptionDelay)
    task,           \* the redemption task of each position
    results,        \* what each redeemPromise resolved to
    execCalls,      \* the client.execute calls issued for each position
    acquires,       \* permits obtained for each position
    releases,       \* semaphore.release() calls of the task of each position
    kmOut,          \* the KeyManager call just made: its arguments, the file it
                    \* found and its outcome; none once the file changed under it
    console,        \* whose text the terminal has shown
    tty,            \* whether stdin and stdout are a terminal
    stored,         \* the bundle, password and file of the last storeKeys()
    rlLimits,       \* requestsPerMinute, burstLimit, windowMs of the RateLimiter
    now,            \* Date.now(), in ms
    requests,       \* RateLimiter.requests
    rlCaller,       \* each caller of executeWithRateLimit
    rlLog,          \* the wrapped operations started so far
    fetcher,        \* one call of getRedeemablePositions(): its arguments, where
                    \* it stands, what it did and how it ended
    app             \* one application of a function: its arguments and result

envVars == <<argv, variant, envPassword, envMax, maxConcurrent>>
vaultVars == <<vault, keys, unlocked>>
fetchVars == <<httpCalls, fetchAttempt, fetched, positions, displayed, clientCreated>>
semVars == <<current, waitQueue>>
taskVars == <<task, results, execCalls, acquires, releases>>
mainVars == <<pc, fatal, exitCode, mainResult, loopI, sleepLeft>>
kmVars == <<kmOut, console, tty, stored>>
rlVars == <<rlLimits, now, requests, rlCaller, rlLog>>
fnVars == <<fetcher, app>>
unitVars == <<kmVars, rlVars, fnVars>>
vars == <<envVars, vaultVars, fetchVars, semVars, taskVars, mainVars, unitVars>>

NoMainResult ==
    [returned |-> FALSE, setup |-> "undefined", checkOnly |-> FALSE,
     redeemed |-> 0, total |-> 0, transactions |-> <<>>]
MainResult(setup, checkOnly, redeemed, total, transactions) ==
    [returned |-> TRUE, setup |-> setup, checkOnly |-> checkOnly,
     redeemed |-> redeemed, total |-> total, transactions |-> transactions]

NoResult == [present |-> FALSE, success |-> FALSE, txHash |-> "", url |-> "", error |-> ""]
PendingTask == [st |-> "pending", elapsed |-> 0, call |-> "none", how |-> ""]

\* The key file earlier runs left: none, one written by storeKeys(), or such
\* a file with a byte of its tag changed since.
InitialVaults ==
    {NoVault} \cup
    {storeKeys(b, PasswordA, "salt1", "iv1") : b \in Bundles} \cup
    {[storeKeys(b, PasswordA, "salt1", "iv1") EXCEPT !.tag.flip = 1] : b \in Bundles}

\* The variables of the key manager and of the rate limiter while main() runs:
\* the specifications below exercise the two classes on their own.
NoCall ==
    [op |-> "", password |-> "", confirmPassword |-> "", ok |-> FALSE,
     keys |-> NoBundle, error |-> "", returned |-> FALSE, before |-> NoVault]
NotStored == [bundle |-> NoBundle, password |-> "", file |-> NoVault]
KmIdle ==
    /\ kmOut = NoCall
    /\ console = {}
    /\ tty = FALSE
    /\ stored = NotStored
RlIdle ==
    /\ rlLimits = [requestsPerMinute |-> 0, burstLimit |-> 0, windowMs |-> 0]
    /\ now = 0
    /\ requests = <<>>
    /\ rlCaller = <<>>
    /\ rlLog = <<>>
\* No call of getRedeemablePositions() and no function applied on its own.
NoError == [isError |-> FALSE, message |-> "", try |-> 0]
NoFetch ==
    [pc |-> "none", walletAddress |-> "", maxRetries |-> 0, baseDelay |-> 0,
     attempt |-> 0, fnCalls |-> 0, httpCalls |-> 0, startedAt |-> 0,
     wakeAt |-> 0, thrown |-> NoError, lastError |-> NoError, slept |-> <<>>,
     recorded |-> 0, outcome |-> "", value |-> <<>>, error |-> NoError]
NoApp ==
    [fn |-> "", raw |-> <<>>, conditionId |-> "", amounts |-> <<>>,
     txResults |-> <<>>, envMax |-> "", applied |-> FALSE, positions |-> <<>>,
     tx |-> NoTx, results |-> <<>>, aggregate |-> NoMainResult,
     maxConcurrent |-> 0]
FnIdle ==
    /\ fetcher = NoFetch
    /\ app = NoApp

Init ==
    /\ argv \in [check : BOOLEAN, setup : BOOLEAN, reset : BOOLEAN]
    /\ variant \in {"ts", "js"}
    /\ envPassword \in {"", PasswordA, PasswordB}
    /\ envMax \in EnvMaxValues
    /\ maxConcurrent = loadEnvironmentOverrides(envMax)
    /\ vault \in InitialVaults
    /\ keys = NoBundle
    /\ unlocked = FALSE
    /\ pc = "start"
    /\ fatal = ""
    /\ exitCode = -1
    /\ mainResult = NoMainResult
    /\ httpCalls = 0
    /\ fetchAttempt = 0
    /\ fetched = FALSE
    /\ positions = <<>>
    /\ displayed = FALSE
    /\ clientCreated = FALSE
    /\ current = 0
    /\ waitQueue = <<>>
    /\ loopI = 0
    /\ sleepLeft = 0
    /\ task = <<>>
    /\ results = <<>>
    /\ execCalls = <<>>
    /\ acquires = <<>>
    /\ releases = <<>>
    /\ KmIdle
    /\ RlIdle
    /\ FnIdle

\* process.exit(1) at the named site of main().
Fatal(site) ==
    /\ pc' = "exited"
    /\ fatal' = site
    /\ exitCode' = 1
    /\ UNCHANGED <<mainResult, loopI, sleepLeft>>

\* main() returns r.
Return(r) ==
    /\ pc' = "returned"
    /\ mainResult' = r
    /\ UNCHANGED <<fatal, exitCode, loopI, sleepLeft>>

ResetRequested == variant = "ts" /\ argv.reset

\* --reset: delete the key file, then run the wizard.
ResetMode ==
    /\ pc = "start"
    /\ ResetRequested
    /\ vault' = reset(vault).file
    /\ pc' = "wizard"
    /\ UNCHANGED <<keys, unlocked, fatal, exitCode, mainResult, loopI, sleepLeft>>
    /\ UNCHANGED <<unitVars, envVars, fetchVars, semVars, taskVars>>

\* --setup: refuse when keys exist, else run the wizard.
SetupMode ==
    /\ pc = "start"
    /\ ~ResetRequested
    /\ argv.setup
    /\ IF isSetup(vault)
       THEN Return(MainResult("false", FALSE, 0, 0, <<>>))
       ELSE /\ pc' = "wizard"
            /\ UNCHANGED <<fatal, exitCode, mainResult, loopI, sleepLeft>>
    /\ UNCHANGED <<unitVars, envVars, vaultVars, fetchVars, semVars, taskVars>>

\* setupWizard(), with what the user types, and the return of main() after it.
SetupWizard ==
    /\ pc = "wizard"
    /\ \E bundle \in Bundles, password \in {PasswordA, PasswordB, ShortPassword},
          confirmPassword \in {PasswordA, PasswordB, ShortPassword} :
          IF WizardError(password, confirmPassword) # ""
          THEN Fatal("setup") /\ UNCHANGED vault
          ELSE /\ \E r \in RandomBytes :
                    vault' = storeKeys(bundle, password, r.salt, r.iv)
               /\ Return(MainResult("true", FALSE, 0, 0, <<>>))
    /\ UNCHANGED <<keys, unlocked>>
    /\ UNCHANGED <<unitVars, envVars, fetchVars, semVars, taskVars>>

\* Load and validate the keys, initialise the wallet.
LoadKeys ==
    /\ pc = "start"
    /\ ~ResetRequested
    /\ ~argv.setup
    /\ IF ~isSetup(vault)
       THEN Fatal("notConfigured") /\ UNCHANGED <<keys, unlocked>>
       ELSE \E typed \in {PasswordA, PasswordB}, walletOk \in BOOLEAN :
              LET password == IF envPassword # "" THEN envPassword ELSE typed
                  loaded == loadKeys(vault, password)
              IN  IF ~loaded.ok
                  THEN Fatal("loadKeys") /\ UNCHANGED <<keys, unlocked>>
                  ELSE /\ keys' = loaded.keys
                       /\ unlocked' = TRUE
                       /\ IF ~isValidPrivateKey(loaded.keys.privateKey)
                          THEN Fatal("privateKey")
                          ELSE IF ~isValidAddress(loaded.keys.funderAddress)
                          THEN Fatal("funderAddress")
                          ELSE IF ~walletOk
                          THEN Fatal("wallet")
                          ELSE /\ pc' = "fetch"
                               /\ UNCHANGED <<fatal, exitCode, mainResult, loopI,
                                              sleepLeft>>
    /\ UNCHANGED vault
    /\ UNCHANGED <<unitVars, envVars, fetchVars, semVars, taskVars>>

\* ----------------------------------------------------------- fetch phase
\* The raw records the Data API answers with: a binary market c1, a
\* negative-risk market c2 with tokens held, a negative-risk market c3 with
\* an outcome of size 0 or of a size too large for a double, and a record
\* whose condition id is malformed.
RawRecord(c, negRisk, sz) ==
    [conditionId |-> c, negativeRisk |-> negRisk, size |-> sz, currentValue |-> sz]
RawRecords ==
    {RawRecord(HexStr("c1", Bytes32HexLen), FALSE, 15),
     RawRecord(HexStr("c2", Bytes32HexLen), TRUE, 15),
     RawRecord(HexStr("c3", Bytes32HexLen), TRUE, 0),
     RawRecord(HexStr("c3", Bytes32HexLen), TRUE, Infinity),
     RawRecord(NoHexStr("c4", Bytes32HexLen), FALSE, 15)}
RawResponses == SeqUpTo(RawRecords, MaxRaw)

\* Faulty variant: the flag is not honoured.
CheckOnlyIgnored(flags) == FALSE

\* The flag --check of the command line.
CheckOnly(flags) == flags.check

\* Faulty variant: a failed fetch is taken for an empty list of positions.
FetchFailsAsEmpty == Return(MainResult("undefined", FALSE, 0, 0, <<>>))

\* main() on a failed getRedeemablePositions().
FetchFails == Fatal("fetch")

\* One attempt of getRedeemablePositions' retried request and, once it
\* succeeds, main() up to the redemption loop.
FetchAttempt ==
    /\ pc = "fetch"
    /\ IF ~isValidAddress(keys.funderAddress)
       THEN FetchFails /\ UNCHANGED <<fetchVars, taskVars>>
       ELSE /\ httpCalls' = httpCalls + 1
            /\ \/ /\ IF fetchAttempt = ApiRetries
                     THEN FetchFails /\ UNCHANGED fetchAttempt
                     ELSE /\ fetchAttempt' = fetchAttempt + 1
                          /\ UNCHANGED mainVars
                  /\ UNCHANGED <<fetched, positions, displayed, clientCreated, taskVars>>
               \/ \E raw \in RawResponses, relayerOk \in BOOLEAN :
                    LET grouped == GroupPositions(raw)
                        n == Len(grouped)
                    IN  /\ fetched' = TRUE
                        /\ positions' = grouped
                        /\ displayed' = (n > 0)
                        /\ task' = [i \in 1..n |-> PendingTask]
                        /\ results' = [i \in 1..n |-> NoResult]
                        /\ execCalls' = [i \in 1..n |-> <<>>]
                        /\ acquires' = [i \in 1..n |-> 0]
                        /\ releases' = [i \in 1..n |-> 0]
                        /\ UNCHANGED fetchAttempt
                        /\ IF n = 0
                           THEN /\ Return(MainResult("undefined", FALSE, 0, 0, <<>>))
                                /\ UNCHANGED clientCreated
                           ELSE IF CheckOnly(argv)
                           THEN /\ Return(MainResult("undefined", TRUE, 0, n, <<>>))
                                /\ UNCHANGED clientCreated
                           ELSE IF ~relayerOk
                           THEN Fatal("relayer") /\ UNCHANGED clientCreated
                           ELSE /\ clientCreated' = TRUE
                                /\ pc' = "loop"
                                /\ UNCHANGED <<fatal, exitCode, mainResult, loopI,
                                               sleepLeft>>
    /\ UNCHANGED <<unitVars, envVars, vaultVars, semVars>>

\* ------------------------------------------------------ redemption tasks
RelayerStates == {"STATE_CONFIRMED", "STATE_FAILED", "STATE_PENDING"}
TxHash(i) == "0xtx" \o ToString(i)
TxUrl(hash) == "https://polygonscan.com/tx/" \o hash

\* What response.wait() may resolve to for position i.
WaitResults(i) ==
    {[isNull |-> TRUE, transactionHash |-> "", state |-> ""]} \cup
    {[isNull |-> FALSE, transactionHash |-> h, state |-> st] :
        h \in {"", TxHash(i)}, st \in RelayerStates}

ErrorResult(msg) ==
    [present |-> TRUE, success |-> FALSE, txHash |-> "", url |-> "", error |-> msg]

\* Faulty variant: a transaction that failed on-chain is reported with an
\* error text next to its hash.
SettledResultWithError(txResult) ==
    IF ~txResult.isNull /\ txResult.transactionHash # ""
    THEN [present |-> TRUE, success |-> txResult.state # "STATE_FAILED",
          txHash |-> txResult.transactionHash,
          url |-> TxUrl(txResult.transactionHash),
          error |-> IF txResult.state = "STATE_FAILED" THEN "Failed on-chain" ELSE ""]
    ELSE ErrorResult("No transaction hash")

\* Faulty variant: the settlement result is not asked for its hash.
SettledResultAnyHash(txResult) ==
    IF ~txResult.isNull
    THEN [present |-> TRUE, success |-> txResult.state # "STATE_FAILED",
          txHash |-> txResult.transactionHash,
          url |-> TxUrl(txResult.transactionHash), error |-> ""]
    ELSE ErrorResult("No transaction hash")

\* The RedemptionResult the task returns for the settlement result.
SettledResult(txResult) ==
    IF ~txResult.isNull /\ txResult.transactionHash # ""
    THEN [present |-> TRUE, success |-> txResult.state # "STATE_FAILED",
          txHash |-> txResult.transactionHash,
          url |-> TxUrl(txResult.transactionHash), error |-> ""]
    ELSE ErrorResult("No transaction hash")

\* Faulty variant: the permit is released at the end of the try block only.
ReleasesPermitOnReturn(how) == how = "settled"

\* The finally block of the task releases the permit on every exit path;
\* how names the path.
ReleasesPermit(how) == TRUE

ReleaseIf(flag, cur, queue) ==
    IF flag THEN SemRelease(cur, queue)
    ELSE [current |-> cur, waitQueue |-> queue, woken |-> <<>>]

\* Faulty variant: client.execute is awaited without withTimeout.
TimerNever(elapsed) == FALSE

\* withTimeout's timer fires once timeoutMs have passed.
TimerDue(elapsed) == elapsed >= TimeoutTicks

\* Faulty variant: the call is issued a second time.
SubmitCallsTwice(tx) == <<(<<tx>>), (<<tx>>)>>

\* The client.execute calls the task issues for the transaction it built:
\* one call, carrying that one transaction.
SubmitCalls(tx) == <<(<<tx>>)>>

\* Faulty variant: the loop runs from the last position to the first.
loopOrderReversed(n) == [k \in 1..n |-> n + 1 - k]

\* for (let i = 0; i < positions.length; i++): the position of each
\* iteration.
loopOrder(n) == [k \in 1..n |-> k]

\* Faulty variant: main() does not sleep between the positions.
sleepsAfterNever(k, n) == FALSE

\* if (i < positions.length - 1), for iteration k of n.
sleepsAfter(k, n) == k < n

\* The task of the position of iteration k, holding its permit, from its
\* start to its first suspension, and main() from there to its next one.
Launch(k, cur, queue, acq) ==
    LET i == loopOrder(Len(positions))[k]
        b == BuildTx(variant, positions[i])
    IN  /\ loopI' = k
        /\ acquires' = acq
        /\ IF b.ok
           THEN /\ execCalls' = [execCalls EXCEPT ![i] = @ \o SubmitCalls(b.tx)]
                /\ task' = [task EXCEPT ![i] = [st |-> "executing", elapsed |-> 0,
                                                call |-> "inflight", how |-> ""]]
                /\ current' = cur
                /\ waitQueue' = queue
                /\ UNCHANGED <<results, releases>>
           ELSE LET r == ReleaseIf(ReleasesPermit("build"), cur, queue)
                IN  /\ results' = [results EXCEPT ![i] = ErrorResult(b.error)]
                    /\ task' = [task EXCEPT ![i].st = "done", ![i].how = "build"]
                    /\ current' = r.current
                    /\ waitQueue' = r.waitQueue
                    /\ releases' = [releases EXCEPT ![i] =
                                        IF ReleasesPermit("build") THEN @ + 1 ELSE @]
                    /\ UNCHANGED execCalls
        /\ IF sleepsAfter(k, Len(positions))
           THEN pc' = "sleep" /\ sleepLeft' = DelayTicks
           ELSE pc' = "awaitAll" /\ sleepLeft' = 0
        /\ UNCHANGED <<fatal, exitCode, mainResult>>

\* The next iteration of the loop: acquire, then launch or wait.
LoopIterate ==
    /\ pc = "loop" \/ (pc = "sleep" /\ sleepLeft = 0)
    /\ LET k == IF pc = "loop" THEN 1 ELSE loopI + 1
           i == loopOrder(Len(positions))[k]
           a == SemAcquire(maxConcurrent, current, waitQueue, i)
       IN  IF a.granted
           THEN Launch(k, a.current, a.waitQueue, [acquires EXCEPT ![i] = @ + 1])
           ELSE /\ pc' = "blocked"
                /\ loopI' = k
                /\ current' = a.current
                /\ waitQueue' = a.waitQueue
                /\ UNCHANGED <<fatal, exitCode, mainResult, sleepLeft, taskVars>>
    /\ UNCHANGED <<unitVars, envVars, vaultVars, fetchVars>>

\* main() goes on after the acquire() a release() resolved.
Resume ==
    /\ pc = "resumed"
    /\ Launch(loopI, current, waitQueue, acquires)
    /\ UNCHANGED <<unitVars, envVars, vaultVars, fetchVars>>

\* The task of position i ends with result res on path how: the return,
\* the catch block and the finally block.
FinishTask(i, res, how, call) ==
    LET r == ReleaseIf(ReleasesPermit(how), current, waitQueue)
    IN  /\ results' = [results EXCEPT ![i] = res]
        /\ task' = [task EXCEPT ![i] = [st |-> "done", elapsed |-> 0,
                                        call |-> call, how |-> how]]
        /\ current' = r.current
        /\ waitQueue' = r.waitQueue
        /\ releases' = [releases EXCEPT ![i] = IF ReleasesPermit(how) THEN @ + 1 ELSE @]
        /\ IF r.woken # <<>>
           THEN /\ pc' = "resumed"
                /\ acquires' = [acquires EXCEPT ![Head(r.woken)] = @ + 1]
           ELSE UNCHANGED <<pc, acquires>>
        /\ UNCHANGED <<execCalls, fatal, exitCode, mainResult, loopI, sleepLeft>>
        /\ UNCHANGED <<unitVars, envVars, vaultVars, fetchVars>>

Running(i) == task[i].st \in {"executing", "settling"}

\* client.execute resolves before the timer fires.
ExecuteResolves(i) ==
    /\ task[i].st = "executing"
    /\ task' = [task EXCEPT ![i].st = "settling", ![i].call = "settled"]
    /\ UNCHANGED <<results, execCalls, acquires, releases>>
    /\ UNCHANGED <<unitVars, envVars, vaultVars, fetchVars, semVars, mainVars>>

\* client.execute rejects before the timer fires.
ExecuteRejects(i) ==
    /\ task[i].st = "executing"
    /\ FinishTask(i, ErrorResult("relayer rejected"), "reject", "settled")

\* The timer of withTimeout fires first.
ExecuteTimesOut(i) ==
    /\ task[i].st = "executing"
    /\ TimerDue(task[i].elapsed)
    /\ FinishTask(i, ErrorResult("Relayer execution timed out"), "timeout",
                  task[i].call)

\* Faulty variant: the call left behind by a timeout still ends the task.
LateExecuteSettlesAgain(i) ==
    /\ pc # "exited"
    /\ task[i].st = "done"
    /\ task[i].call = "inflight"
    /\ FinishTask(i, ErrorResult("relayer rejected"), "reject", "settled")

\* The client.execute call left behind by a timeout settles.
LateExecuteSettles(i) ==
    /\ pc # "exited"
    /\ task[i].st = "done"
    /\ task[i].call = "inflight"
    /\ task' = [task EXCEPT ![i].call = "settled"]
    /\ UNCHANGED <<results, execCalls, acquires, releases>>
    /\ UNCHANGED <<unitVars, envVars, vaultVars, fetchVars, semVars, mainVars>>

\* response.wait() resolves.
WaitResolves(i) ==
    /\ task[i].st = "settling"
    /\ \E txResult \in WaitResults(i) :
          FinishTask(i, SettledResult(txResult), "settled", task[i].call)

\* response.wait() rejects.
WaitRejects(i) ==
    /\ task[i].st = "settling"
    /\ FinishTask(i, ErrorResult("wait rejected"), "waitReject", task[i].call)

\* One tick of time passes; a timer that is due fires before the next tick.
Tick ==
    /\ pc \in {"sleep", "blocked", "awaitAll"}
    /\ ~(pc = "sleep" /\ sleepLeft = 0)
    /\ \A i \in DOMAIN task : ~(task[i].st = "executing" /\ TimerDue(task[i].elapsed))
    /\ \/ pc = "sleep"
       \/ \E i \in DOMAIN task : Running(i) /\ task[i].elapsed <= TimeoutTicks
    /\ sleepLeft' = IF pc = "sleep" THEN sleepLeft - 1 ELSE sleepLeft
    /\ task' = [i \in DOMAIN task |->
                  IF Running(i)
                  THEN [task[i] EXCEPT !.elapsed = Min(@ + 1, TimeoutTicks + 1)]
                  ELSE task[i]]
    /\ UNCHANGED <<pc, fatal, exitCode, mainResult, loopI>>
    /\ UNCHANGED <<results, execCalls, acquires, releases>>
    /\ UNCHANGED <<unitVars, envVars, vaultVars, fetchVars, semVars>>

\* ------------------------------------------------------------- aggregation
\* Faulty variant: every result with a transaction hash is listed.
AggregateAllHashes(res) ==
    LET n == Len(res)
        successCount == Cardinality({i \in 1..n : res[i].success})
        withHash == SelectIdx([i \in 1..n |-> res[i].txHash # ""], 1, n)
    IN  MainResult("undefined", FALSE, successCount, Len(positions),
                   [k \in 1..Len(withHash) |-> res[withHash[k]].txHash])

Aggregate(res) ==
    LET n == Len(res)
        successCount == Cardinality({i \in 1..n : res[i].success})
        successfulTxs ==
            SelectIdx([i \in 1..n |-> res[i].success /\ res[i].txHash # ""], 1, n)
    IN  MainResult("undefined", FALSE, successCount, Len(positions),
                   [k \in 1..Len(successfulTxs) |-> res[successfulTxs[k]].txHash])

\* Faulty variant: Promise.race instead of Promise.all.
AnySettled(res) == \E i \in DOMAIN res : res[i].present

\* Promise.all(results) resolves once every redeemPromise has.
AllSettled(res) == \A i \in DOMAIN res : res[i].present

\* main() returns the aggregate.
AwaitAll ==
    /\ pc = "awaitAll"
    /\ AllSettled(results)
    /\ Return(Aggregate(results))
    /\ UNCHANGED <<unitVars, envVars, vaultVars, fetchVars, semVars, taskVars>>

\* Faulty variant: a pass succeeds only when every position was redeemed.
ExitCodeAllOrNothing(result) ==
    IF result.setup # "undefined" THEN (IF result.setup = "true" THEN 0 ELSE 1)
    ELSE IF result.checkOnly THEN 0
    ELSE IF result.redeemed = result.total THEN 0 ELSE 1

\* The exit code the .then handler of main() exits with.
ExitCodeOf(result) ==
    IF result.setup # "undefined" THEN (IF result.setup = "true" THEN 0 ELSE 1)
    ELSE IF result.checkOnly THEN 0
    ELSE IF result.redeemed > 0 \/ result.total = 0 THEN 0 ELSE 1

ExitHandler ==
    /\ pc = "returned"
    /\ pc' = "exited"
    /\ exitCode' = ExitCodeOf(mainResult)
    /\ UNCHANGED <<fatal, mainResult, loopI, sleepLeft>>
    /\ UNCHANGED <<unitVars, envVars, vaultVars, fetchVars, semVars, taskVars>>

Next ==
    \/ ResetMode
    \/ SetupMode
    \/ SetupWizard
    \/ LoadKeys
    \/ FetchAttempt
    \/ LoopIterate
    \/ Resume
    \/ \E i \in DOMAIN task : ExecuteResolves(i)
    \/ \E i \in DOMAIN task : ExecuteRejects(i)
    \/ \E i \in DOMAIN task : ExecuteTimesOut(i)
    \/ \E i \in DOMAIN task : LateExecuteSettles(i)
    \/ \E i \in DOMAIN task : WaitResolves(i)
    \/ \E i \in DOMAIN task : WaitRejects(i)
    \/ Tick
    \/ AwaitAll
    \/ ExitHandler

Spec == Init /\ [][Next]_vars

\* The scheduling of Node: a continuation that can run does run, time
\* passes, a timer that is due fires; and of the relayer, every settlement
\* wait completes.  A client.execute call that never settles is ended by the
\* timer of withTimeout.
Fairness ==
    /\ WF_vars(LoopIterate)
    /\ WF_vars(Resume)
    /\ WF_vars(Tick)
    /\ WF_vars(AwaitAll)
    /\ \A i \in 1..MaxRaw :
          /\ WF_vars(i \in DOMAIN task /\ ExecuteTimesOut(i))
          /\ WF_vars(i \in DOMAIN task /\ (WaitResolves(i) \/ WaitRejects(i)))

\* ================================================ the redemption loop alone
\* main() from the start of the redemption loop: the keys were loaded with
\* the password of the environment, the first request to the Data API
\* returned records that grouped into one position or more, and the
\* RelayClient was created.
GateInit ==
    /\ argv = [check |-> FALSE, setup |-> FALSE, reset |-> FALSE]
    /\ variant \in {"ts", "js"}
    /\ envPassword = PasswordA
    /\ envMax \in EnvMaxValues
    /\ maxConcurrent = loadEnvironmentOverrides(envMax)
    /\ vault = storeKeys([privateKey |-> GoodPrivateKey, funderAddress |-> GoodFunder],
                         PasswordA, "salt1", "iv1")
    /\ keys = loadKeys(vault, envPassword).keys
    /\ unlocked = TRUE
    /\ pc = "loop"
    /\ fatal = ""
    /\ exitCode = -1
    /\ mainResult = NoMainResult
    /\ httpCalls = 1
    /\ fetchAttempt = 0
    /\ fetched = TRUE
    /\ \E raw \in RawResponses :
          /\ positions = GroupPositions(raw)
          /\ Len(positions) > 0
    /\ displayed = TRUE
    /\ clientCreated = TRUE
    /\ current = 0
    /\ waitQueue = <<>>
    /\ loopI = 0
    /\ sleepLeft = 0
    /\ task = [i \in 1..Len(positions) |-> PendingTask]
    /\ results = [i \in 1..Len(positions) |-> NoResult]
    /\ execCalls = [i \in 1..Len(positions) |-> <<>>]
    /\ acquires = [i \in 1..Len(positions) |-> 0]
    /\ releases = [i \in 1..Len(positions) |-> 0]
    /\ KmIdle
    /\ RlIdle
    /\ FnIdle

GateNext ==
    \/ LoopIterate
    \/ Resume
    \/ \E i \in DOMAIN task : ExecuteResolves(i)
    \/ \E i \in DOMAIN task : ExecuteRejects(i)
    \/ \E i \in DOMAIN task : ExecuteTimesOut(i)
    \/ \E i \in DOMAIN task : LateExecuteSettles(i)
    \/ \E i \in DOMAIN task : WaitResolves(i)
    \/ \E i \in DOMAIN task : WaitRejects(i)
    \/ Tick
    \/ AwaitAll
    \/ ExitHandler

GateSpec == GateInit /\ [][GateNext]_vars /\ Fairness

\* ================================================= the key manager alone
\* The methods of KeyManager called in any order on one key file, with the
\* file open to changes from outside between the calls.

\* What main() holds fixed while the key manager or the rate limiter is
\* exercised on its own.
MainIdle ==
    /\ argv = [check |-> FALSE, setup |-> FALSE, reset |-> FALSE]
    /\ variant = "ts"
    /\ envPassword = ""
    /\ envMax = ""
    /\ maxConcurrent = loadEnvironmentOverrides("")
    /\ keys = NoBundle
    /\ unlocked = FALSE
    /\ pc = "start"
    /\ fatal = ""
    /\ exitCode = -1
    /\ mainResult = NoMainResult
    /\ httpCalls = 0
    /\ fetchAttempt = 0
    /\ fetched = FALSE
    /\ positions = <<>>
    /\ displayed = FALSE
    /\ clientCreated = FALSE
    /\ current = 0
    /\ waitQueue = <<>>
    /\ loopI = 0
    /\ sleepLeft = 0
    /\ task = <<>>
    /\ results = <<>>
    /\ execCalls = <<>>
    /\ acquires = <<>>
    /\ releases = <<>>
mainOnlyVars ==
    <<envVars, keys, unlocked, fetchVars, semVars, taskVars, mainVars, fnVars>>

VaultInit ==
    /\ MainIdle
    /\ RlIdle
    /\ FnIdle
    /\ vault = NoVault
    /\ kmOut = NoCall
    /\ console = {}
    /\ tty \in BOOLEAN
    /\ stored = NotStored

\* ask(rl, question) on a readline interface whose output is process.stdout:
\* the question is written, and on a terminal readline writes the typed
\* characters as it receives them.
askMuted(terminal, what) == {"question"}
ask(terminal, what) == {"question"} \cup (IF terminal THEN {what} ELSE {})

WizardPasswords == {PasswordA, PasswordB, ShortPassword}
\* The bundles typed into the wizard: two that differ in the private key.
WizardBundles == {b \in Bundles : b.funderAddress = GoodFunder}

\* setupWizard(), with what the user types.
KmSetupWizard ==
    /\ \E bundle \in WizardBundles, password \in WizardPasswords,
          confirmPassword \in WizardPasswords, r \in RandomBytes :
          LET error == WizardError(password, confirmPassword)
              asked == UNION {ask(tty, what) :
                                what \in {"privateKey", "funderAddress", "apiKey",
                                          "apiSecret", "apiPassphrase", "password",
                                          "confirmPassword"}}
          IN  IF error # ""
              THEN /\ kmOut' = [NoCall EXCEPT !.op = "setupWizard",
                                               !.password = password,
                                               !.confirmPassword = confirmPassword,
                                               !.before = vault,
                                               !.error = error]
                   /\ console' = console \cup {"banner"} \cup asked
                   /\ UNCHANGED <<vault, stored>>
              ELSE /\ vault' = storeKeys(bundle, password, r.salt, r.iv)
                   /\ stored' = [bundle |-> bundle, password |-> password,
                                 file |-> vault']
                   /\ kmOut' = [NoCall EXCEPT !.op = "setupWizard",
                                               !.password = password,
                                               !.confirmPassword = confirmPassword,
                                               !.before = vault,
                                               !.ok = TRUE, !.keys = bundle]
                   /\ console' = console \cup {"banner", "keyFile"} \cup asked
    /\ UNCHANGED <<tty, rlVars, mainOnlyVars>>

\* getKeys(password) with the password of the environment, or null and the
\* password typed at the prompt.
KmGetKeys ==
    /\ \E fromEnv \in {"", PasswordA, PasswordB}, typed \in {PasswordA, PasswordB} :
          LET password == IF fromEnv # "" THEN fromEnv ELSE typed
              loaded == loadKeys(vault, password)
          IN  /\ kmOut' = [NoCall EXCEPT !.op = "getKeys", !.password = password,
                                          !.before = vault,
                                          !.ok = loaded.ok, !.keys = loaded.keys,
                                          !.error = loaded.error]
              /\ console' = console \cup
                              (IF fromEnv = "" THEN ask(tty, "password") ELSE {})
    /\ UNCHANGED <<vault, tty, stored, rlVars, mainOnlyVars>>

\* isSetup().
KmIsSetup ==
    /\ kmOut' = [NoCall EXCEPT !.op = "isSetup", !.ok = TRUE, !.before = vault,
                                !.returned = isSetup(vault)]
    /\ UNCHANGED <<vault, console, tty, stored, rlVars, mainOnlyVars>>

\* reset().
KmReset ==
    /\ vault' = reset(vault).file
    /\ kmOut' = [NoCall EXCEPT !.op = "reset", !.ok = TRUE, !.before = vault,
                                !.returned = reset(vault).returned]
    /\ console' = console \cup {"resetMessage"}
    /\ UNCHANGED <<tty, stored, rlVars, mainOnlyVars>>

Pristine == vault.exists /\ vault = stored.file

\* One byte of the hex text of the ciphertext or of the tag is overwritten
\* in the file storeKeys() wrote: with other hex digits, or with characters
\* that are not hex digits.
TamperByte ==
    /\ Pristine
    /\ \E field \in {"encrypted", "tag"}, hexDigits \in BOOLEAN :
          \E p \in 1..vault[field].len :
             vault' = IF hexDigits
                      THEN [vault EXCEPT ![field].flip = p]
                      ELSE [vault EXCEPT ![field].len = p - 1]
    /\ kmOut' = NoCall
    /\ UNCHANGED <<console, tty, stored, rlVars, mainOnlyVars>>

\* The file storeKeys() wrote is damaged otherwise: its text is no longer
\* JSON, a field is gone, or the salt or the iv is another one.
CorruptFile ==
    /\ Pristine
    /\ \/ vault' = [vault EXCEPT !.json = FALSE]
       \/ \E field \in {"salt", "iv", "encrypted", "tag"} :
             vault' = [vault EXCEPT ![field].present = FALSE]
       \/ \E salt \in Salts \ {vault.salt.val} :
             vault' = [vault EXCEPT !.salt.val = salt]
       \/ \E iv \in Ivs \ {vault.iv.val} :
             vault' = [vault EXCEPT !.iv.val = iv]
    /\ kmOut' = NoCall
    /\ UNCHANGED <<console, tty, stored, rlVars, mainOnlyVars>>

VaultNext ==
    \/ KmSetupWizard
    \/ KmGetKeys
    \/ KmIsSetup
    \/ KmReset
    \/ TamperByte
    \/ CorruptFile

VaultSpec == VaultInit /\ [][VaultNext]_vars

\* ================================================ the rate limiter alone
\* Callers of executeWithRateLimit on one RateLimiter, each awaiting its own
\* calls one after the other, the callers running concurrently.

\* requests.filter(timestamp => now - timestamp < span)
Within(reqs, t, span) == SelectSeq(reqs, LAMBDA timestamp : t - timestamp < span)
\* Math.min(...timestamps) of a non-empty array.
Oldest(reqs) == CHOOSE m \in {reqs[k] : k \in DOMAIN reqs} :
                    \A k \in DOMAIN reqs : m <= reqs[k]

\* canMakeRequest() on the pruned array.
canMakeRequest(limits, pruned, t) ==
    /\ Len(pruned) < limits.burstLimit
    /\ Len(Within(pruned, t, MinuteMs)) < limits.requestsPerMinute

\* getTimeUntilNextRequest() at time t: canMakeRequest() first prunes
\* this.requests to the burst window.
getTimeUntilNextRequest(limits, reqs, t) ==
    LET pruned == Within(reqs, t, limits.windowMs)
        recentRequests == Within(pruned, t, MinuteMs)
    IN  IF canMakeRequest(limits, pruned, t) THEN 0
        ELSE IF Len(pruned) = 0 THEN 0
        ELSE LET burstClearTime == limits.windowMs - (t - Oldest(pruned))
             IN  IF Len(recentRequests) = 0 THEN Max(0, burstClearTime)
                 ELSE Max(0, Min(burstClearTime,
                                 MinuteMs - (t - Oldest(recentRequests))))

\* The constructor arguments tried: the shape of the defaults (30, 10, 60000),
\* with the burst window shorter than, equal to and longer than the minute.
RlLimitChoices ==
    [requestsPerMinute : {1, 3}, burstLimit : {2},
     windowMs : {MinuteMs \div 2, MinuteMs, MinuteMs + MinuteMs \div 2}]

IdleCaller == [pc |-> "idle", issuedAt |-> 0, wakeAt |-> 0, prior |-> 0,
               left |-> RlMaxCalls]

RlInit ==
    /\ MainIdle
    /\ KmIdle
    /\ FnIdle
    /\ vault = NoVault
    /\ rlLimits \in RlLimitChoices
    /\ now = 0
    /\ requests = <<>>
    /\ rlCaller = [c \in 1..RlCallers |-> IdleCaller]
    /\ rlLog = <<>>

\* The wrapped operation of caller c is invoked.
Started(c, caller) ==
    rlLog' = Append(rlLog, [caller |-> c, issuedAt |-> caller.issuedAt,
                            startedAt |-> now, prior |-> caller.prior])

\* executeWithRateLimit(fn) is called: waitForNextRequest() computes the wait
\* and either sets the timer or returns, and then fn() is invoked.
RlExecute(c) ==
    /\ rlCaller[c].pc = "idle"
    /\ rlCaller[c].left > 0
    /\ LET waitTime == getTimeUntilNextRequest(rlLimits, requests, now)
           caller == [rlCaller[c] EXCEPT !.issuedAt = now, !.prior = Len(rlLog)]
       IN  /\ requests' = Within(requests, now, rlLimits.windowMs)
           /\ IF waitTime > 0
              THEN /\ rlCaller' = [rlCaller EXCEPT ![c] =
                                     [caller EXCEPT !.pc = "waiting",
                                                    !.wakeAt = now + waitTime]]
                   /\ UNCHANGED rlLog
              ELSE /\ rlCaller' = [rlCaller EXCEPT ![c] =
                                     [caller EXCEPT !.pc = "running"]]
                   /\ Started(c, caller)
    /\ UNCHANGED <<rlLimits, now, vault, kmVars, mainOnlyVars>>

\* The timer of waitForNextRequest() fires and fn() is invoked.
RlTimerFires(c) ==
    /\ rlCaller[c].pc = "waiting"
    /\ now >= rlCaller[c].wakeAt
    /\ rlCaller' = [rlCaller EXCEPT ![c].pc = "running"]
    /\ Started(c, rlCaller[c])
    /\ UNCHANGED <<rlLimits, now, requests, vault, kmVars, mainOnlyVars>>

\* fn() resolves or rejects: recordRequest() in either case.
RlSettles(c) ==
    /\ rlCaller[c].pc = "running"
    /\ requests' = Append(requests, now)
    /\ rlCaller' = [rlCaller EXCEPT ![c].pc = "idle", ![c].left = @ - 1]
    /\ UNCHANGED <<rlLimits, now, rlLog, vault, kmVars, mainOnlyVars>>

\* The clock advances; a timer that is due fires first.
RlTick ==
    /\ now < MaxNow * TickMs
    /\ \A c \in DOMAIN rlCaller :
          rlCaller[c].pc = "waiting" => now < rlCaller[c].wakeAt
    /\ now' = now + TickMs
    /\ UNCHANGED <<rlLimits, requests, rlCaller, rlLog, vault, kmVars, mainOnlyVars>>

RlNext ==
    \/ \E c \in DOMAIN rlCaller : RlExecute(c)
    \/ \E c \in DOMAIN rlCaller : RlTimerFires(c)
    \/ \E c \in DOMAIN rlCaller : RlSettles(c)
    \/ RlTick

RlSpec == RlInit /\ [][RlNext]_vars

\* ========================================== getRedeemablePositions alone
\* One call getRedeemablePositions(walletAddress): the validation of the
\* address, retryWithBackoff(fn, maxRetries, baseDelay) around
\* globalRateLimiter.executeWithRateLimit(fetchFn), and the grouping of what
\* the Data API returned.  The limiter is the one of the process and may hold
\* the timestamps of earlier requests.  The fetcher itself passes
\* CONFIG.api.retries and 2000 to retryWithBackoff().

Error(message, n) == [isError |-> TRUE, message |-> message, try |-> n]

\* What retryWithBackoff() keeps of the value it caught.
lastErrorOf(error) ==
    IF error.isError THEN error ELSE Error("String(error)", error.try)

\* Faulty variant: the delay is not capped.
backoffDelayUncapped(baseDelay, attempt) == baseDelay * BackoffMultiplier ^ attempt

\* Math.min(baseDelay * Math.pow(backoffMultiplier, attempt), maxBackoffTime)
backoffDelay(baseDelay, attempt) ==
    Min(baseDelay * BackoffMultiplier ^ attempt, MaxBackoffTime)

\* Faulty variant: the loop gives up one try early.
isLastAttemptEarly(attempt, maxRetries) == attempt + 1 >= maxRetries

\* attempt === maxRetries
isLastAttempt(attempt, maxRetries) == attempt = maxRetries

\* Faulty variant: the catch block of executeWithRateLimit() records nothing.
recordRequestIfResolved(reqs, t, resolved) ==
    IF resolved THEN Append(reqs, t) ELSE reqs

\* this.recordRequest() of executeWithRateLimit(), after fn() resolved and in
\* the catch block alike.
recordRequest(reqs, t, resolved) == Append(reqs, t)

\* new RateLimiter(): the limits of globalRateLimiter.
DefaultLimits == [requestsPerMinute |-> 30, burstLimit |-> 10, windowMs |-> MinuteMs]

\* The timestamps the limiter holds when the call is made: none, or one
\* short of the burst limit.
PriorRequests == {<<>>, [k \in 1..(DefaultLimits.burstLimit - 1) |-> 0]}

\* What the Data API answers with when it answers with an array.
FetcherResponses == {raw \in RawResponses : Len(raw) <= 2}

\* The ways fetchFn() rejects before its timer fires: fetch() rejects, the
\* response is not ok, the body is not an array.
FetchFailures ==
    {"fetch failed", "Data API error",
     "Invalid API response: expected array of positions"}

FetcherInit ==
    /\ MainIdle
    /\ KmIdle
    /\ vault = NoVault
    /\ app = NoApp
    /\ rlLimits = DefaultLimits
    /\ now = 0
    /\ requests \in PriorRequests
    /\ rlCaller = <<>>
    /\ rlLog = <<>>
    /\ \E w \in {GoodFunder, NoHexStr("fa", AddressHexLen)},
          m \in 0..MaxRetries, d \in {DefaultBaseDelay, FetchBaseDelay} :
          fetcher = [NoFetch EXCEPT !.pc = "start", !.walletAddress = w,
                                    !.maxRetries = m, !.baseDelay = d]

fetcherFixedVars ==
    <<envVars, vaultVars, fetchVars, semVars, taskVars, mainVars, kmVars,
      rlLimits, rlCaller, rlLog, app>>

\* fetchFn() is invoked: the request is sent.
Requested(f) ==
    [f EXCEPT !.pc = "inflight", !.httpCalls = @ + 1, !.startedAt = now]

\* retryWithBackoff() calls fn(): executeWithRateLimit() computes the wait
\* and either sets the timer or invokes fetchFn().
CallFn(f) ==
    LET waitTime == getTimeUntilNextRequest(rlLimits, requests, now)
        called == [f EXCEPT !.fnCalls = @ + 1]
    IN  /\ requests' = Within(requests, now, rlLimits.windowMs)
        /\ fetcher' = IF waitTime > 0
                      THEN [called EXCEPT !.pc = "limited", !.wakeAt = now + waitTime]
                      ELSE Requested(called)

\* The call: a malformed address is refused, a well-formed one starts the
\* first try.
FetcherCall ==
    /\ fetcher.pc = "start"
    /\ IF ~isValidAddress(fetcher.walletAddress)
       THEN /\ fetcher' = [fetcher EXCEPT !.pc = "done", !.outcome = "rejected",
                             !.error = Error("Invalid wallet address", 0)]
            /\ UNCHANGED requests
       ELSE CallFn(fetcher)
    /\ UNCHANGED <<now, fetcherFixedVars>>

\* The timer of waitForNextRequest() fires.
FetcherLimiterTimer ==
    /\ fetcher.pc = "limited"
    /\ now >= fetcher.wakeAt
    /\ fetcher' = Requested(fetcher)
    /\ UNCHANGED <<now, requests, fetcherFixedVars>>

\* fetchFn() resolves with the array raw: executeWithRateLimit() records the
\* request, retryWithBackoff() returns, the records are grouped.
FetcherResolves ==
    /\ fetcher.pc = "inflight"
    /\ \E raw \in FetcherResponses :
          fetcher' = [fetcher EXCEPT !.pc = "done", !.outcome = "resolved",
                                     !.thrown = NoError, !.recorded = @ + 1,
                                     !.value = GroupPositions(raw)]
    /\ requests' = recordRequest(requests, now, TRUE)
    /\ UNCHANGED <<now, fetcherFixedVars>>

\* fetchFn() rejects with error: executeWithRateLimit() records the request
\* and throws the error on, retryWithBackoff() gives up or sets its timer.
Rejected(error) ==
    LET caught == [fetcher EXCEPT !.thrown = error, !.recorded = @ + 1,
                                  !.lastError = lastErrorOf(error)]
        delay == backoffDelay(fetcher.baseDelay, fetcher.attempt)
    IN  /\ requests' = recordRequest(requests, now, FALSE)
        /\ fetcher' =
              IF isLastAttempt(fetcher.attempt, fetcher.maxRetries)
              THEN [caught EXCEPT !.pc = "done", !.outcome = "rejected",
                                  !.error = caught.lastError]
              ELSE [caught EXCEPT !.pc = "backoff", !.wakeAt = now + delay,
                                  !.slept = Append(@, delay)]
        /\ UNCHANGED <<now, fetcherFixedVars>>

FetcherRejects ==
    /\ fetcher.pc = "inflight"
    /\ \E message \in FetchFailures : Rejected(Error(message, fetcher.fnCalls))

\* The timer of withTimeout() fires before fetch() settles.
FetcherTimesOut ==
    /\ fetcher.pc = "inflight"
    /\ now >= fetcher.startedAt + ApiTimeout
    /\ Rejected(Error("Data API request timed out", fetcher.fnCalls))

\* The timer of the backoff fires: the next try.
FetcherBackoffTimer ==
    /\ fetcher.pc = "backoff"
    /\ now >= fetcher.wakeAt
    /\ CallFn([fetcher EXCEPT !.attempt = @ + 1])
    /\ UNCHANGED <<now, fetcherFixedVars>>

\* Time passes up to the next timer.
FetcherClock ==
    /\ fetcher.pc \in {"limited", "backoff", "inflight"}
    /\ LET due == IF fetcher.pc = "inflight" THEN fetcher.startedAt + ApiTimeout
                  ELSE fetcher.wakeAt
       IN  /\ now < due
           /\ now' = due
    /\ UNCHANGED <<fetcher, requests, fetcherFixedVars>>

FetcherNext ==
    \/ FetcherCall
    \/ FetcherLimiterTimer
    \/ FetcherResolves
    \/ FetcherRejects
    \/ FetcherTimesOut
    \/ FetcherBackoffTimer
    \/ FetcherClock

FetcherSpec == FetcherInit /\ [][FetcherNext]_vars

\* ================================================== the functions alone
\* The grouping of getRedeemablePositions() and the transaction builders,
\* each applied once to arguments drawn from the sets below.

FunRecord(c, negRisk, sz, val) ==
    [conditionId |-> c, negativeRisk |-> negRisk, size |-> sz, currentValue |-> val]

\* Raw records: two conditions with positive, zero and negative numbers, and
\* identifiers that are not 0x and 64 hex digits.
FunRawRecords ==
    {FunRecord(HexStr("c1", Bytes32HexLen), FALSE, 15, 7),
     FunRecord(HexStr("c1", Bytes32HexLen), FALSE, -5, -3),
     FunRecord(HexStr("c2", Bytes32HexLen), TRUE, 0, 20),
     FunRecord(HexStr("c2", Bytes32HexLen), TRUE, 25, -4),
     FunRecord(NoHexStr("c4", Bytes32HexLen), FALSE, 15, 7),
     FunRecord(HexStr("c1", Bytes32HexLen - 1), FALSE, 15, 7),
     FunRecord(HexStr("", 0), TRUE, 15, 7)}

FunConditionIds ==
    {HexStr("c1", Bytes32HexLen), HexStr("c2", Bytes32HexLen),
     NoHexStr("c4", Bytes32HexLen), HexStr("c1", Bytes32HexLen - 1),
     HexStr("c1", Bytes32HexLen + 1), HexStr("", 0),
     [HexStr("c1", Bytes32HexLen) EXCEPT !.x = FALSE]}

FunAmounts == SeqUpTo({-1, 0, 1, 15}, MaxAmounts)

\* Values of MAX_CONCURRENT_REDEMPTIONS: unset, zero, negative, positive,
\* not a number, a number followed by letters, a fraction, too many digits.
FunEnvMaxValues == {"", "0", "-1", "1", "2", "abc", "2abc", "1.5", ManyDigits}

\* What response.wait() resolved to for each position of a pass.
FunTxResults ==
    UNION {{txs \in [1..n -> UNION {WaitResults(i) : i \in 1..n}] :
               \A i \in 1..n : txs[i] \in WaitResults(i)} : n \in 0..MaxRaw}

FunInit ==
    /\ MainIdle
    /\ KmIdle
    /\ RlIdle
    /\ vault = NoVault
    /\ fetcher = NoFetch
    /\ \/ \E raw \in SeqUpTo(FunRawRecords, MaxRaw) :
             app = [NoApp EXCEPT !.fn = "group", !.raw = raw]
       \/ \E c \in FunConditionIds :
             app = [NoApp EXCEPT !.fn = "createCtfRedeemTx", !.conditionId = c]
       \/ \E c \in FunConditionIds, amounts \in FunAmounts,
             fn \in {"createNegRiskRedeemTx (ts)", "createNegRiskRedeemTx (js)"} :
             app = [NoApp EXCEPT !.fn = fn, !.conditionId = c, !.amounts = amounts]
       \/ \E e \in FunEnvMaxValues :
             app = [NoApp EXCEPT !.fn = "loadEnvironmentOverrides", !.envMax = e]
       \/ \E txs \in FunTxResults :
             app = [NoApp EXCEPT !.fn = "settle", !.txResults = txs]

funFixedVars ==
    <<envVars, vaultVars, fetchVars, semVars, taskVars, mainVars, kmVars, rlVars,
      fetcher>>

ApplyGroup ==
    /\ app.fn = "group" /\ ~app.applied
    /\ app' = [app EXCEPT !.applied = TRUE, !.positions = GroupPositions(app.raw)]
    /\ UNCHANGED funFixedVars

ApplyCtf ==
    /\ app.fn = "createCtfRedeemTx" /\ ~app.applied
    /\ app' = [app EXCEPT !.applied = TRUE,
                          !.tx = createCtfRedeemTx(app.conditionId)]
    /\ UNCHANGED funFixedVars

ApplyNegRiskTs ==
    /\ app.fn = "createNegRiskRedeemTx (ts)" /\ ~app.applied
    /\ app' = [app EXCEPT !.applied = TRUE,
                          !.tx = createNegRiskRedeemTxTs(app.conditionId, app.amounts)]
    /\ UNCHANGED funFixedVars

ApplyNegRiskJs ==
    /\ app.fn = "createNegRiskRedeemTx (js)" /\ ~app.applied
    /\ app' = [app EXCEPT !.applied = TRUE,
                          !.tx = createNegRiskRedeemTxJs(app.conditionId, app.amounts)]
    /\ UNCHANGED funFixedVars

\* The classification of the settlement results of a pass and the
\* aggregate of the RedemptionResults (total is not looked at: it is the
\* number of positions of main()).
ApplySettle ==
    /\ app.fn = "settle" /\ ~app.applied
    /\ LET res == [k \in DOMAIN app.txResults |-> SettledResult(app.txResults[k])]
       IN  app' = [app EXCEPT !.applied = TRUE, !.results = res,
                              !.aggregate = Aggregate(res)]
    /\ UNCHANGED funFixedVars

ApplyOverrides ==
    /\ app.fn = "loadEnvironmentOverrides" /\ ~app.applied
    /\ app' = [app EXCEPT !.applied = TRUE,
                          !.maxConcurrent = loadEnvironmentOverrides(app.envMax)]
    /\ UNCHANGED funFixedVars

FunNext ==
    \/ ApplyOverrides
    \/ ApplySettle
    \/ ApplyGroup
    \/ ApplyCtf
    \/ ApplyNegRiskTs
    \/ ApplyNegRiskJs

FunSpec == FunInit /\ [][FunNext]_vars

\* ================================================================== claims
Positions == DOMAIN task
InFlight == {i \in Positions : task[i].st \in {"executing", "settling"}}
\* Positions that hold a permit: the tasks under way, and the position
\* main() was handed a permit for and has not launched yet.
Admitted == Cardinality(InFlight) + (IF pc = "resumed" THEN 1 ELSE 0)
\* The redemption loop was entered and main() has returned the aggregate.
PassReturned == clientCreated /\ mainResult.returned
FailurePaths == {"build", "reject", "timeout", "waitReject"}
Succeeded == {i \in Positions : results[i].success}

\* C1: at any moment at most N = maxConcurrentRedemptions positions are
\* between their admission by the gate and their RedemptionResult, and the
\* counter of the Semaphore stays within 0..N.
C1_AtMostNInFlight ==
    /\ Admitted <= maxConcurrent
    /\ 0 <= current
    /\ current <= maxConcurrent

\* N = 2 positions are under way and main() waits at the gate for the third.
C1_Witness ==
    /\ maxConcurrent = 2
    /\ Cardinality(InFlight) = 2
    /\ pc = "blocked"
    /\ Len(waitQueue) = 1

C3_ReleasedExactlyOnce ==
    /\ \A i \in Positions :
          /\ releases[i] <= acquires[i]
          /\ acquires[i] <= 1
          /\ task[i].st = "done" => releases[i] = 1
          /\ i \in InFlight => acquires[i] = 1 /\ releases[i] = 0
    /\ PassReturned =>
          /\ current = 0
          /\ \A i \in Positions : acquires[i] = 1 /\ releases[i] = 1

\* The aggregate is returned after a pass with a build error, a timeout and
\* a rejected settlement wait or submit.
C3_Witness ==
    /\ PassReturned
    /\ \E i, j, k \in Positions :
          /\ task[i].how = "build"
          /\ task[j].how = "timeout"
          /\ task[k].how \in {"reject", "waitReject"}

\* C4 as stated: no position is still waited on for its settlement once the
\* per-submission timeout has passed since its submission.
C4_SettlementWaitBounded ==
    \A i \in Positions : task[i].st = "settling" => task[i].elapsed <= TimeoutTicks

\* C4 as amended: the timeout bounds the wait for the relayer's submit call
\* (client.execute) only.  A position is never still waiting for that call
\* once the timeout has passed; when the timer fires the task yields the
\* failed result "Relayer execution timed out", releases its permit and
\* leaves the relayer call in flight.
C4_SubmitWaitBounded ==
    /\ [](\A i \in Positions :
            task[i].st = "executing" => task[i].elapsed <= TimeoutTicks)
    /\ [](\A i \in Positions :
            task[i].how = "timeout" =>
                /\ results[i] = [present |-> TRUE, success |-> FALSE, txHash |-> "",
                                 url |-> "", error |-> "Relayer execution timed out"]
                /\ releases[i] = 1)
    /\ [][\A i \in Positions :
            (task[i].st = "executing" /\ task'[i].how = "timeout") =>
                /\ task[i].elapsed = TimeoutTicks
                /\ task[i].call = "inflight"
                /\ task'[i].call = "inflight"]_vars

\* A position was reported failed by the timeout while its relayer call is
\* still in flight.
C4_Witness ==
    \E i \in Positions :
        /\ task[i].how = "timeout"
        /\ task[i].call = "inflight"
        /\ results[i].present

\* C5: client.execute is issued at most once per position, with exactly one
\* transaction, the one built for that position; a failed or timed-out
\* submission is not issued again.
C5_SubmittedAtMostOnce ==
    \A i \in Positions :
        /\ Len(execCalls[i]) <= 1
        /\ \A c \in 1..Len(execCalls[i]) :
              /\ Len(execCalls[i][c]) = 1
              /\ execCalls[i][c][1].conditionId = positions[i].conditionId
        /\ task[i].st \in {"executing", "settling"} => Len(execCalls[i]) = 1
        /\ task[i].how \in {"reject", "timeout"} => Len(execCalls[i]) = 1

\* The process has exited after a pass in which one submission was rejected
\* and another timed out.
C5_Witness ==
    /\ pc = "exited"
    /\ \E i, j \in Positions : task[i].how = "reject" /\ task[j].how = "timeout"

\* C6: the aggregate has total = number of fetched positions, redeemed =
\* number of positions whose result has success = true, and transactions =
\* the transaction hashes of exactly those positions, in position order.
C6_Aggregate ==
    PassReturned =>
        /\ mainResult.total = Len(positions)
        /\ mainResult.redeemed = Cardinality(Succeeded)
        /\ Len(mainResult.transactions) = Cardinality(Succeeded)
        /\ \A i \in Succeeded :
              mainResult.transactions[Cardinality({j \in Succeeded : j < i}) + 1]
                  = results[i].txHash

\* Three positions, the second throws, the first and the third succeed:
\* {redeemed: 2, total: 3} with both hashes.
C6_Witness ==
    /\ PassReturned
    /\ Len(positions) = 3
    /\ task[2].how \in {"build", "reject", "waitReject"}
    /\ mainResult.redeemed = 2
    /\ mainResult.total = 3
    /\ mainResult.transactions = <<TxHash(1), TxHash(3)>>

\* C7: the exit code is 0 when the pass found no positions, when check mode
\* completed and when at least one redemption succeeded; it is 1 on every
\* fatal error and when one or more redemptions were attempted and none
\* succeeded.
C7_ExitCode ==
    pc = "exited" =>
        /\ fatal # "" => exitCode = 1
        /\ (fatal = "" /\ fetched /\ Len(positions) = 0) => exitCode = 0
        /\ (fatal = "" /\ fetched /\ argv.check) => exitCode = 0
        /\ (fatal = "" /\ Succeeded # {}) => exitCode = 0
        /\ (fatal = "" /\ clientCreated /\ Succeeded = {}) => exitCode = 1

\* Exit code 0 after a pass in which one position failed and one succeeded.
C7_Witness ==
    /\ pc = "exited"
    /\ exitCode = 0
    /\ Succeeded # {}
    /\ \E i \in Positions : task[i].how \in FailurePaths

\* C8: with --check no relayer client is created and no transaction is
\* submitted, whatever was fetched; the pass returns redeemed = 0 and total =
\* number of grouped positions, after listing them.
C8_CheckOnlyReads ==
    argv.check =>
        /\ ~clientCreated
        /\ \A i \in Positions : execCalls[i] = <<>> /\ task[i].st = "pending"
        /\ (fetched /\ mainResult.returned) =>
              /\ mainResult.redeemed = 0
              /\ mainResult.total = Len(positions)
              /\ Len(positions) > 0 => displayed /\ mainResult.checkOnly

\* Check mode has returned with three positions found.
C8_Witness ==
    /\ argv.check
    /\ mainResult.returned
    /\ mainResult.total = 3

\* C9: when the fetch of the positions fails, the run ends with exit code 1
\* and no transaction is built or submitted.
C9_FetchFailureAborts ==
    /\ pc = "fetch" => httpCalls = fetchAttempt /\ fetchAttempt <= ApiRetries
    /\ (httpCalls > 0 /\ pc # "fetch" /\ ~fetched) =>
          /\ httpCalls = ApiRetries + 1
          /\ pc = "exited"
          /\ exitCode = 1
          /\ ~clientCreated
          /\ positions = <<>>
          /\ Positions = {}

\* The fetch has failed on its last try.
C9_Witness ==
    /\ fatal = "fetch"
    /\ httpCalls = ApiRetries + 1
    /\ pc = "exited"

WellFormed(s, n) == s.x /\ s.hex /\ s.n = n
KeysUsable ==
    /\ vault.exists
    /\ unlocked
    /\ WellFormed(keys.privateKey, Bytes32HexLen)
    /\ WellFormed(keys.funderAddress, AddressHexLen)

UnlockOfStored == kmOut.op = "getKeys" /\ kmOut.before.exists /\ kmOut.before = stored.file

\* C11: after the wizard stored bundle B under password P, getKeys() with any
\* other password fails with "Invalid password or corrupted key file" and
\* returns no bundle.
C11_WrongPasswordFails ==
    (UnlockOfStored /\ kmOut.password # stored.password) =>
        /\ ~kmOut.ok
        /\ kmOut.error = DecryptionError
        /\ kmOut.keys = NoBundle

\* A file stored under one password was unlocked with the other and refused.
C11_Witness ==
    /\ UnlockOfStored
    /\ stored.password = PasswordA
    /\ kmOut.password = PasswordB
    /\ kmOut.error = DecryptionError

ByteChanged ==
    /\ kmOut.before.exists
    /\ kmOut.before # stored.file
    /\ kmOut.before.encrypted.present
    /\ kmOut.before.tag.present
    /\ \/ [kmOut.before EXCEPT !.encrypted = stored.file.encrypted] = stored.file
       \/ [kmOut.before EXCEPT !.tag = stored.file.tag] = stored.file

\* C13: when one byte of the persisted ciphertext or tag was changed,
\* getKeys() fails for every password and returns no bundle.
C13_TamperFailsClosed ==
    (kmOut.op = "getKeys" /\ ByteChanged) =>
        /\ ~kmOut.ok
        /\ kmOut.keys = NoBundle

\* C14: whenever getKeys() fails on an existing key file (wrong password,
\* changed field, text that is not JSON, missing field, tag of a wrong
\* length) the error is the one decryption error.
C14_OneDecryptionError ==
    (kmOut.op = "getKeys" /\ kmOut.before.exists /\ ~kmOut.ok) =>
        kmOut.error = DecryptionError

\* C15: setupWizard() fails when the password has fewer than 8 characters or
\* the confirmation differs, and the key file is then what it was before:
\* not created, not modified.
C15_WizardRejectsAndWritesNothing ==
    (/\ kmOut.op = "setupWizard"
     /\ \/ Len(kmOut.password) < MinPasswordLength
        \/ kmOut.confirmPassword # kmOut.password) =>
        /\ ~kmOut.ok
        /\ kmOut.error # ""
        /\ vault = kmOut.before

\* The wizard refused a confirmation that differs from the password, with
\* no key file before or after.
C15_Witness ==
    /\ kmOut.op = "setupWizard"
    /\ kmOut.password = PasswordA
    /\ kmOut.confirmPassword = PasswordB
    /\ ~kmOut.ok
    /\ ~vault.exists

\* C16: isSetup() returns whether the key file exists; reset() returns
\* whether it existed before the call and leaves none; and once the file is
\* gone only a successful setupWizard() brings one back.
C16_IsSetupAndReset ==
    /\ [](kmOut.op = "isSetup" => kmOut.returned = vault.exists)
    /\ [](kmOut.op = "reset" =>
            /\ kmOut.returned = kmOut.before.exists
            /\ ~vault.exists)
    /\ [][(~vault.exists /\ vault'.exists) =>
            (kmOut'.op = "setupWizard" /\ kmOut'.ok)]_vars

\* reset() found no key file and returned false.
C16_Witness ==
    /\ kmOut.op = "reset"
    /\ ~kmOut.before.exists
    /\ ~kmOut.returned
    /\ stored # NotStored

\* C17: a run of main() changes the key file only by a successful setup
\* wizard or by the delete of --reset; loading the keys, check mode and
\* redemption leave it as it is, and --setup with a key file present leaves
\* it as it is and returns setup: false ("Already configured").
C17_OnlySetupAndResetWrite ==
    /\ [][vault' # vault =>
            \/ pc = "wizard" /\ pc' = "returned" /\ mainResult'.setup = "true"
            \/ pc = "start" /\ ResetRequested /\ vault.exists /\ ~vault'.exists]_vars
    /\ [][(pc = "start" /\ ~ResetRequested /\ argv.setup /\ vault.exists) =>
            /\ vault' = vault
            /\ pc' = "returned"
            /\ mainResult'.setup = "false"]_vars

\* --setup found a key file, returned setup: false, and the file is there.
C17_Witness ==
    /\ argv.setup
    /\ ~ResetRequested
    /\ mainResult.returned
    /\ mainResult.setup = "false"
    /\ vault \in InitialVaults \ {NoVault}

\* C18: the terminal never shows the password or the private key.
C18_SecretsNeverShown ==
    console \cap {"password", "confirmPassword", "privateKey"} = {}

\* ------------------------------------------------ claims on the rate limiter
\* The wrapped operations started in the span of time ending at start k.
StartedWithin(k, span) ==
    {j \in DOMAIN rlLog : /\ rlLog[j].startedAt <= rlLog[k].startedAt
                          /\ rlLog[k].startedAt - rlLog[j].startedAt < span}

\* C19: in any burst window (windowMs) at most burstLimit wrapped operations
\* are started, and in any rolling minute at most requestsPerMinute.
C19_StartsBounded ==
    \A k \in DOMAIN rlLog :
        /\ Cardinality(StartedWithin(k, rlLimits.windowMs)) <= rlLimits.burstLimit
        /\ Cardinality(StartedWithin(k, MinuteMs)) <= rlLimits.requestsPerMinute

\* The operations that had been started, within the span of time before call
\* k was issued, when it was issued.
StartedBefore(k, span) ==
    {j \in 1..rlLog[k].prior : rlLog[k].issuedAt - rlLog[j].startedAt < span}

\* C20: a call issued when burstLimit operations were started within the
\* burst window waits a strictly positive time before its operation is
\* invoked, and a call issued when requestsPerMinute operations were started
\* within the last minute waits until the oldest of them is a minute old.
C20_ExcessCallWaits ==
    \A k \in DOMAIN rlLog :
        /\ Cardinality(StartedBefore(k, rlLimits.windowMs)) >= rlLimits.burstLimit
              => rlLog[k].startedAt > rlLog[k].issuedAt
        /\ Cardinality(StartedBefore(k, MinuteMs)) >= rlLimits.requestsPerMinute
              => \A j \in StartedBefore(k, MinuteMs) :
                    rlLog[k].startedAt - rlLog[j].startedAt >= MinuteMs

\* ---------------------------------------------------- claims on the fetcher
\* A step in which the request in flight settles.
FetchSettles == fetcher.pc = "inflight" /\ fetcher'.pc # "inflight"

\* C21: every executeWithRateLimit() call appends exactly one timestamp, the
\* time its operation settled, to the limiter's window, whether the operation
\* resolved or rejected; what retryWithBackoff() catches is the error the
\* operation rejected with; nothing else adds to the window, so that each
\* failed try costs one unit of quota.
C21_OneTimestampPerCall ==
    [][IF FetchSettles
       THEN /\ requests' = Append(requests, now)
            /\ fetcher'.recorded = fetcher.recorded + 1
            /\ fetcher'.outcome # "resolved"
                  => /\ fetcher'.thrown.try = fetcher.fnCalls
                     /\ fetcher'.lastError = fetcher'.thrown
       ELSE /\ Len(requests') <= Len(requests)
            /\ fetcher'.recorded = fetcher.recorded]_vars

\* Two failed tries and the try that resolved have each left a timestamp.
C21_Witness ==
    /\ fetcher.outcome = "resolved"
    /\ fetcher.fnCalls = 3
    /\ Len(requests) = 3

\* C22: when every try fails the operation is invoked maxRetries + 1 times
\* and the call rejects with the error of the last try; when a try resolves
\* its value is returned and the operation is not invoked again; a failure
\* of any kind on a try that is not the last is followed by the backoff.
C22_RetriesThenLastError ==
    [][/\ fetcher'.fnCalls <= fetcher'.maxRetries + 1
       /\ fetcher.pc = "done" => fetcher' = fetcher
       /\ FetchSettles =>
            /\ fetcher'.pc \in {"done", "backoff"}
            /\ fetcher'.outcome = "rejected"
                  => /\ fetcher'.fnCalls = fetcher'.maxRetries + 1
                     /\ fetcher'.error = fetcher'.thrown
                     /\ fetcher'.error.try = fetcher'.fnCalls
            /\ fetcher'.outcome = "resolved"
                  => /\ fetcher'.fnCalls = fetcher'.attempt + 1
                     /\ fetcher'.pc = "done"
            /\ (fetcher'.outcome = "" /\ fetcher.attempt < fetcher.maxRetries)
                  => fetcher'.pc = "backoff"
            /\ fetcher'.pc = "backoff" => fetcher.attempt < fetcher.maxRetries]_vars

\* The fetcher's own call: four tries that all failed, the last by timeout.
C22_Witness ==
    /\ fetcher.outcome = "rejected"
    /\ fetcher.maxRetries = ApiRetries
    /\ fetcher.baseDelay = FetchBaseDelay
    /\ fetcher.fnCalls = ApiRetries + 1
    /\ fetcher.error = Error("Data API request timed out", ApiRetries + 1)

RECURSIVE Power(_, _)
Power(b, e) == IF e = 0 THEN 1 ELSE b * Power(b, e - 1)

\* C23: the delay before retry k (k = 0 for the first) is
\* min(baseDelay * backoffMultiplier^k, maxBackoffTime): the delays never
\* decrease and never exceed maxBackoffTime, the next try does not start
\* before the delay has passed, and no delay follows the final failed try.
C23_BackoffDelays ==
    [][LET slept == fetcher'.slept
       IN  /\ \A k \in DOMAIN slept :
                 /\ slept[k] <= MaxBackoffTime
                 /\ k > 1 => slept[k - 1] <= slept[k]
                 /\ LET grown == fetcher'.baseDelay * Power(BackoffMultiplier, k - 1)
                    IN  slept[k] = IF grown < MaxBackoffTime THEN grown
                                   ELSE MaxBackoffTime
           /\ (FetchSettles /\ fetcher'.pc = "backoff")
                 => /\ Len(slept) = fetcher'.attempt + 1
                    /\ fetcher'.wakeAt = now + slept[Len(slept)]
           /\ (fetcher.pc = "backoff" /\ fetcher'.pc # "backoff")
                 => now >= fetcher.wakeAt
           /\ fetcher'.outcome = "rejected" => Len(slept) = fetcher'.fnCalls - 1
                                               \/ fetcher'.fnCalls = 0]_vars

\* The delays have grown up to the cap.
C23_Witness ==
    /\ Len(fetcher.slept) = 5
    /\ fetcher.slept[4] < MaxBackoffTime
    /\ fetcher.slept[5] = MaxBackoffTime
    /\ fetcher.outcome = "rejected"

\* An address that is not 0x followed by forty hex digits.
MalformedAddress(s) == ~s.x \/ ~s.hex \/ s.n # AddressHexLen

\* C24: getRedeemablePositions() with a malformed wallet address rejects
\* without sending a request, without invoking the retried operation and
\* without a backoff, and leaves the limiter's window as it was.
C24_BadAddressTouchesNothing ==
    [][MalformedAddress(fetcher.walletAddress) =>
          /\ fetcher'.httpCalls = 0
          /\ fetcher'.fnCalls = 0
          /\ fetcher'.slept = <<>>
          /\ requests' = requests
          /\ now' = now
          /\ fetcher'.pc = "done"
          /\ fetcher'.outcome = "rejected"
          /\ fetcher'.error.message = "Invalid wallet address"]_vars

\* The call was refused while the window held timestamps.
C24_Witness ==
    /\ fetcher.pc = "done"
    /\ MalformedAddress(fetcher.walletAddress)
    /\ fetcher.error.message = "Invalid wallet address"
    /\ Len(requests) = DefaultLimits.burstLimit - 1

\* -------------------------------------------- claims on the pure functions
\* 0x followed by 64 hex digits.
WellFormedId(s) == s.x /\ s.hex /\ s.n = Bytes32HexLen

\* The records of raw that carry the identifier cid, in their order.
Contributing(raw, cid) == SelectSeq(raw, LAMBDA r : r.conditionId = cid)
\* Where the identifier cid first appears in raw.
FirstAt(raw, cid) ==
    CHOOSE k \in DOMAIN raw :
        raw[k].conditionId = cid /\ \A j \in 1..(k - 1) : raw[j].conditionId # cid
NonNeg(x) == IF x < 0 THEN 0 ELSE x
RECURSIVE SumOf(_, _)
SumOf(seq, field) ==
    IF seq = <<>> THEN 0 ELSE NonNeg(Head(seq)[field]) + SumOf(Tail(seq), field)

\* C25: the grouping returns one Position for each distinct well-formed
\* condition identifier of the raw records, in the order in which the
\* identifiers first appear; records with a malformed identifier contribute
\* nothing; the outcomes of a Position are one per record of its identifier,
\* none empty, and totalValue and totalSize are the sums of the values and
\* sizes of those records, each clamped to at least 0.
C25_GroupingOfRecords ==
    (app.fn = "group" /\ app.applied) =>
        LET raw == app.raw
            out == app.positions
            ids == {raw[k].conditionId : k \in DOMAIN raw}
        IN  /\ {out[k].conditionId : k \in DOMAIN out} = {c \in ids : WellFormedId(c)}
            /\ \A k, l \in DOMAIN out :
                  k < l => /\ out[k].conditionId # out[l].conditionId
                           /\ FirstAt(raw, out[k].conditionId)
                                 < FirstAt(raw, out[l].conditionId)
            /\ \A k \in DOMAIN out :
                  LET from == Contributing(raw, out[k].conditionId)
                  IN  /\ out[k].outcomes # <<>>
                      /\ Len(out[k].outcomes) = Len(from)
                      /\ \A j \in DOMAIN from :
                            /\ out[k].outcomes[j].size = NonNeg(from[j].size)
                            /\ out[k].outcomes[j].value = NonNeg(from[j].currentValue)
                      /\ out[k].totalSize = SumOf(from, "size")
                      /\ out[k].totalValue = SumOf(from, "currentValue")

\* A record with a malformed identifier between two records of one
\* condition, one of them with negative numbers.
C25_Witness ==
    /\ app.fn = "group" /\ app.applied
    /\ Len(app.raw) = 3
    /\ ~WellFormedId(app.raw[2].conditionId)
    /\ app.raw[3].size < 0
    /\ Len(app.positions) = 1
    /\ Len(app.positions[1].outcomes) = 2
    /\ app.positions[1].totalSize = 15

\* C26: for a well-formed condition identifier the binary builder returns a
\* Transaction of value "0" to the CTF contract whose payload carries that
\* identifier and the index sets 1 and 2; for a malformed identifier it
\* throws and returns no Transaction.
C26_BinaryBuilder ==
    (app.fn = "createCtfRedeemTx" /\ app.applied) =>
        IF WellFormedId(app.conditionId)
        THEN /\ app.tx.ok
             /\ app.tx.tx.to = "ctf"
             /\ app.tx.tx.value = "0"
             /\ app.tx.tx.conditionId = app.conditionId
             /\ app.tx.tx.args = <<1, 2>>
        ELSE ~app.tx.ok /\ app.tx.tx = NoTx

\* The builder refused an identifier of 65 hex digits.
C26_Witness ==
    /\ app.fn = "createCtfRedeemTx" /\ app.applied
    /\ app.conditionId.n = Bytes32HexLen + 1
    /\ ~app.tx.ok

\* C27: each negative-risk builder, given a well-formed identifier, throws on
\* an empty list of amounts and on a list with a negative amount, and on
\* every other list, zeros included, returns a Transaction whose payload
\* carries the amounts in their order.
C27_NegRiskBuilders ==
    (/\ app.fn \in {"createNegRiskRedeemTx (ts)", "createNegRiskRedeemTx (js)"}
     /\ app.applied
     /\ WellFormedId(app.conditionId)) =>
        IF app.amounts = <<>> \/ \E k \in DOMAIN app.amounts : app.amounts[k] < 0
        THEN ~app.tx.ok
        ELSE app.tx.ok /\ app.tx.tx.args = app.amounts

\* ------------------------------------------- claims on the redemption loop
\* Where the task of a position stands on the paths of the specification.
Phase(t) ==
    IF t.st = "pending" THEN "Pending"
    ELSE IF t.st \in {"executing", "settling"} THEN "Submitted"
    ELSE IF t.how = "build" THEN "Errored"
    ELSE "Settled"
PhaseMoves ==
    {<<"Pending", "Submitted">>, <<"Pending", "Errored">>,
     <<"Submitted", "Settled">>} \cup
    {<<ph, ph>> : ph \in {"Pending", "Submitted", "Errored", "Settled"}}
\* A negative-risk position with an outcome whose size no builder accepts.
MustFail(pos) ==
    pos.negativeRisk /\ \E k \in DOMAIN pos.outcomes : pos.outcomes[k].size = Infinity

\* C28: a position moves only from Pending (through the build) to Submitted
\* or to Errored, and from Submitted to Settled; the result and the calls of
\* a position that is Errored or Settled never change; an Errored position
\* and a position whose build must fail have no client.execute call; a
\* position with a call holds a permit it acquired and the call carries the
\* transaction built for it; a result exists exactly in the final states.
C28_PositionPaths ==
    [][\A i \in DOMAIN task \cap DOMAIN task' :
          LET from == Phase(task[i])
              to == Phase(task'[i])
          IN  /\ <<from, to>> \in PhaseMoves
              /\ from = to => /\ results'[i] = results[i]
                              /\ execCalls'[i] = execCalls[i]
                              /\ acquires'[i] >= acquires[i]
              /\ from = "Pending" => execCalls[i] = <<>> /\ ~results[i].present
              /\ (from # to /\ to = "Errored")
                    => /\ execCalls'[i] = <<>>
                       /\ acquires'[i] >= 1
                       /\ results'[i].present /\ ~results'[i].success
              /\ (from # to /\ to = "Submitted")
                    => LET b == BuildTx(variant, positions[i])
                       IN  /\ acquires'[i] >= 1
                           /\ b.ok /\ ~MustFail(positions[i])
                           /\ execCalls'[i] = <<(<<b.tx>>)>>
                           /\ ~results'[i].present
              /\ (from # to /\ to = "Settled")
                    => /\ execCalls'[i] = execCalls[i]
                       /\ results'[i].present]_vars

\* One position ended Errored and another Settled with success.
C28_Witness ==
    \E i, j \in DOMAIN task :
        /\ Phase(task[i]) = "Errored"
        /\ Phase(task[j]) = "Settled"
        /\ results[j].success

\* The task of position j starts in this step.
Launched(j) == task[j].st = "pending" /\ task'[j].st # "pending"

\* C29: the task of a position after the first starts only when the sleep
\* begun at the start of the position before it has run out, the sleep being
\* redemptionDelay long and counted in the same time as the tasks; after the
\* start of the last position main() does not sleep.
C29_DelayBetweenLaunches ==
    [][/\ \A j \in DOMAIN task \cap DOMAIN task' :
             Launched(j) =>
                /\ j > 1 => /\ sleepLeft = 0
                            /\ ~Launched(j - 1)
                            /\ task[j - 1].st # "pending"
                            /\ Running(j - 1) => task[j - 1].elapsed >= DelayTicks
                /\ j < Len(positions) => pc' = "sleep" /\ sleepLeft' = DelayTicks
                /\ j = Len(positions) => pc' # "sleep" /\ sleepLeft' = 0
       /\ (sleepLeft' # sleepLeft /\ \A j \in DOMAIN task : ~Launched(j))
             => /\ pc = "sleep"
                /\ sleepLeft' = sleepLeft - 1
                /\ \A i \in DOMAIN task :
                      Running(i) => task'[i].elapsed
                                       = Min(task[i].elapsed + 1, TimeoutTicks + 1)]_vars

\* The second position started, with a permit that had been free all along,
\* redemptionDelay after the first, which is still in flight.
C29_Witness ==
    /\ Len(positions) >= 2
    /\ maxConcurrent >= 2
    /\ Running(1) /\ task[1].elapsed = DelayTicks
    /\ Running(2) /\ task[2].elapsed = 0
    /\ releases[1] = 0

\* C30: permits are acquired and client.execute calls issued in the order of
\* the positions: a position that holds or held a permit, or whose task
\* started, comes after positions that all acquired theirs and whose tasks
\* all started; results may come in any order.
C30_AdmittedInOrder ==
    \A i, j \in DOMAIN task :
        i < j => /\ acquires[j] >= 1 => acquires[i] >= 1
                 /\ task[j].st # "pending" => task[i].st # "pending"
                 /\ execCalls[j] # <<>>
                       => execCalls[i] # <<>> \/ Phase(task[i]) = "Errored"

\* The second position has its result while the first is still in flight.
C30_Witness ==
    /\ Len(positions) >= 2
    /\ Running(1)
    /\ results[2].present /\ results[2].success
    /\ ~results[1].present

\* ------------------------------------------------- claims on the results
\* C31: every RedemptionResult carries either the transaction hash with its
\* explorer URL and no error text, or an error text with neither hash nor
\* URL: never both and never neither.
C31_HashOrError ==
    \A i \in DOMAIN results :
        results[i].present =>
            \/ /\ results[i].txHash # "" /\ results[i].url = TxUrl(results[i].txHash)
               /\ results[i].error = ""
            \/ /\ results[i].txHash = "" /\ results[i].url = ""
               /\ results[i].error # ""

\* One result of a transaction that failed on-chain, with hash and without
\* error, next to one result with an error only.
C31_Witness ==
    \E i, j \in DOMAIN results :
        /\ results[i].present /\ ~results[i].success /\ results[i].txHash # ""
        /\ results[j].present /\ results[j].error = "Relayer execution timed out"

\* The positions whose settlement result is a confirmed transaction.
Confirmed(txResults) ==
    {k \in DOMAIN txResults : /\ ~txResults[k].isNull
                              /\ txResults[k].transactionHash # ""
                              /\ txResults[k].state = "STATE_CONFIRMED"}

\* C32: a position has success = true, is counted in redeemed and has its
\* hash listed only when its settlement result is in the state
\* STATE_CONFIRMED; a result in any other state is not a success.
C32_OnlyConfirmedCounts ==
    (app.fn = "settle" /\ app.applied) =>
        /\ \A k \in DOMAIN app.results :
              app.results[k].success => k \in Confirmed(app.txResults)
        /\ app.aggregate.redeemed = Cardinality(Confirmed(app.txResults))
        /\ \A t \in DOMAIN app.aggregate.transactions :
              \E k \in Confirmed(app.txResults) :
                 app.aggregate.transactions[t] = app.txResults[k].transactionHash

\* C33: CONFIG.app.maxConcurrentRedemptions after the overrides is a
\* positive integer: the default 3 when MAX_CONCURRENT_REDEMPTIONS is unset,
\* zero, negative or not a number, and the positive integer the value
\* denotes otherwise.
C33_PositiveInteger ==
    (app.fn = "loadEnvironmentOverrides" /\ app.applied) =>
        /\ app.maxConcurrent >= 1
        /\ app.maxConcurrent # Infinity
        /\ app.envMax \in {"", "0", "-1", "abc"}
              => app.maxConcurrent = DefaultMaxConcurrent
        /\ app.envMax = "1" => app.maxConcurrent = 1
        /\ app.envMax = "2" => app.maxConcurrent = 2

\* ---------------------------------------------------- claims on the gate
\* The task of some position releases its permit in this step.
SomeRelease == \E i \in DOMAIN releases \cap DOMAIN releases' :
                  releases'[i] > releases[i]

OpenCalls == {i \in DOMAIN task : task[i].call = "inflight"}
AwaitedCalls == {i \in OpenCalls : task[i].st = "executing"}

\* C35 as stated: the client.execute calls issued and neither resolved nor
\* rejected are never more than N = maxConcurrentRedemptions.
C35_OpenCallsBounded == Cardinality(OpenCalls) <= maxConcurrent

\* C35, amended: the calls a task still awaits are never more than N; a call
\* that is open without being awaited is the call of a position that was
\* reported failed by the timeout.
C35_AwaitedCallsBounded ==
    /\ Cardinality(AwaitedCalls) <= maxConcurrent
    /\ \A i \in OpenCalls \ AwaitedCalls :
          /\ task[i].how = "timeout"
          /\ results[i] = ErrorResult("Relayer execution timed out")

\* More calls are open than the gate has permits.
C35_Witness ==
    /\ Cardinality(OpenCalls) > maxConcurrent
    /\ Cardinality(AwaitedCalls) = maxConcurrent

\* C36: once a position has its timeout result, no step changes that result,
\* its path or its count of releases, which is one; the step in which its
\* client.execute call settles afterwards changes no result, no permit and
\* nothing of main().
C36_TimeoutIsTerminal ==
    [][\A i \in DOMAIN task \cap DOMAIN task' :
          task[i].how = "timeout" =>
             /\ results'[i] = results[i]
             /\ results[i] = ErrorResult("Relayer execution timed out")
             /\ task'[i].how = "timeout"
             /\ task'[i].st = "done"
             /\ releases[i] = 1
             /\ releases'[i] = 1
             /\ task'[i].call # task[i].call =>
                   UNCHANGED <<results, releases, acquires, current, waitQueue,
                               mainResult, pc, exitCode>>]_vars

\* The call of a timed-out position has settled after the pass returned.
C36_Witness ==
    /\ PassReturned
    /\ \E i \in DOMAIN task :
          /\ task[i].how = "timeout"
          /\ task[i].call = "settled"

\* C37: a caller that found getTimeUntilNextRequest() = w > 0 and waited
\* exactly w, no request having been recorded since it asked, finds
\* canMakeRequest() true when its timer fires.
C37_WaitSuffices ==
    \A c \in DOMAIN rlCaller :
        (/\ rlCaller[c].pc = "waiting"
         /\ now = rlCaller[c].wakeAt
         /\ \A k \in DOMAIN requests : requests[k] < rlCaller[c].issuedAt)
        => canMakeRequest(rlLimits, Within(requests, now, rlLimits.windowMs), now)

\* C38: the build step succeeds for every position the fetcher returned: no
\* task ends in the catch block with an error of a builder, in either
\* variant of the loop.
C38_BuildNeverFails ==
    \A i \in DOMAIN task :
        /\ task[i].how # "build"
        /\ task[i].st # "pending" => BuildTx(variant, positions[i]).ok

\* C39: every result with success = true carries a transaction hash, and the
\* aggregate main() returns after a pass lists exactly redeemed hashes, with
\* 0 <= redeemed <= total.
C39_HashPerSuccess ==
    /\ \A i \in DOMAIN results : results[i].success => results[i].txHash # ""
    /\ PassReturned =>
          /\ Len(mainResult.transactions) = mainResult.redeemed
          /\ \A k \in DOMAIN mainResult.transactions : mainResult.transactions[k] # ""
          /\ 0 <= mainResult.redeemed
          /\ mainResult.redeemed <= mainResult.total

\* A pass returned in which some settlements succeeded and another came
\* without a hash.
C39_Witness ==
    /\ PassReturned
    /\ mainResult.redeemed >= 1
    /\ Len(mainResult.transactions) = mainResult.redeemed
    /\ \E i \in DOMAIN results : results[i].error = "No transaction hash"

\* ------------------------------------------------------- claims on --reset
\* C40: with --reset the key file is deleted in the step that leads to the
\* wizard, before anything is typed; while the wizard runs there is no key
\* file; and when the wizard rejects what was typed (passwords that differ
\* or a password shorter than 8 characters) the process exits with code 1
\* and no key file, whatever file there was before.
C40_ResetDeletesFirst ==
    /\ [][(pc = "start" /\ ResetRequested) =>
             /\ pc' = "wizard"
             /\ ~isSetup(vault')]_vars
    /\ []((ResetRequested /\ pc = "wizard") => ~isSetup(vault))
    /\ []((ResetRequested /\ fatal = "setup") =>
             /\ pc = "exited"
             /\ exitCode = 1
             /\ ~isSetup(vault)
             /\ ~mainResult.returned)

\* The wizard of a --reset invocation failed: exit code 1 and no key file.
C40_Witness ==
    /\ ResetRequested
    /\ fatal = "setup"
    /\ exitCode = 1
    /\ vault = NoVault

====
